---- MODULE Spec2Model ----
(***************************************************************************)
(* A model of the Merkle-Patricia multiproof engine of archival-scissors   *)
(* (crates/multiproof/src/proof.rs): the content-addressed node store, the *)
(* traversal under an intent, and the mutation engine.                     *)
(*                                                                         *)
(* Byte strings are sequences of integers.  Keys are PathLen nibbles long  *)
(* (64 in the program) over the nibbles 0..MaxNibble (0..15 in the         *)
(* program); a branch has MaxNibble + 2 items (17 in the program).         *)
(*                                                                         *)
(* Further components, each with a specification of its own: the slim      *)
(* parcel of crates/inventory/src/transferrable.rs (SpecSlim), the SSZ     *)
(* codec of crates/types/src/state.rs (SpecCodec), the BlockEvm of         *)
(* crates/tracer/src/evm.rs (SpecEvm), the BlockExecutor of                *)
(* crates/tracer/src/trace.rs (SpecTrace), verify_proof of                 *)
(* crates/verify/src/eip1186.rs (SpecVerify), the oracle task detection of *)
(* crates/inventory/src/oracle.rs (SpecOracle) and MultiProof::view        *)
(* (SpecView).  SpecShared is Spec on tries whose leaves share one value.  *)
(***************************************************************************)
EXTENDS Integers, Sequences, FiniteSets, TLC

\* Number of nibbles of a key (the program walks 64).
PathLen == 3

\* Largest nibble value (the program's nibbles are 0..15).
MaxNibble == 2

\* Largest number of leaves of the pre-state trie the proofs are taken from.
MaxLeaves == 3

\* Largest number of mutating traversals (Modify, Remove) in one behaviour.
MaxMods == 1

Nibbles == 0 .. MaxNibble

\* Items of a branch node: one per nibble and the value slot.
BranchItems == MaxNibble + 2

AllPaths == [1 .. PathLen -> Nibbles]

\* The keys the model traverses: those with at most one non-zero nibble.
Keys == {k \in AllPaths : Cardinality({i \in 1 .. PathLen : k[i] # 0}) <= 1}

\* The keys the pre-state trie may hold: those of Keys over the nibbles 0, 1.
SeedKeys == {k \in Keys : \A i \in 1 .. PathLen : k[i] <= 1}

(***************************************************************************)
(* keccak256 and RLP                                                       *)
(***************************************************************************)

\* Marks a digest; no byte of the model has this value.
HashTag == 256

\* keccak256 as a collision-free digest: the tagged preimage.
Keccak(bytes) == <<HashTag>> \o bytes

\* H256::default(), the all-zero hash; it is the digest of nothing.
ZeroHash == <<0>>

\* RLP of one byte string.
RlpItem(b) ==
    IF Len(b) = 1 /\ b[1] < 128 THEN b
    ELSE IF Len(b) < 56 THEN <<128 + Len(b)>> \o b
    ELSE <<184, Len(b)>> \o b

RECURSIVE RlpPayload(_)
RlpPayload(items) ==
    IF items = <<>> THEN <<>>
    ELSE RlpItem(Head(items)) \o RlpPayload(Tail(items))

\* Node::to_rlp_list: the RLP list of the node's items.
RlpList(payload) ==
    IF Len(payload) < 56 THEN <<192 + Len(payload)>> \o payload
    ELSE <<248, Len(payload)>> \o payload

ToRlpList(items) == RlpList(RlpPayload(items))

RECURSIVE DecodeItems(_, _)
DecodeItems(bytes, pos) ==
    IF pos > Len(bytes) THEN <<>>
    ELSE LET b == bytes[pos]
         IN  IF b < 128 THEN <<(<<b>>)>> \o DecodeItems(bytes, pos + 1)
             ELSE IF b < 184
                  THEN <<SubSeq(bytes, pos + 1, pos + b - 128)>>
                           \o DecodeItems(bytes, pos + 1 + b - 128)
                  ELSE <<SubSeq(bytes, pos + 2, pos + 1 + bytes[pos + 1])>>
                           \o DecodeItems(bytes, pos + 2 + bytes[pos + 1])

\* rlp::decode_list: the items of an RLP list.
DecodeList(bytes) ==
    IF bytes[1] = 248 THEN DecodeItems(bytes, 3) ELSE DecodeItems(bytes, 2)

(***************************************************************************)
(* Values                                                                  *)
(***************************************************************************)

\* Two RLP-encoded non-empty values.
ValueA == <<1>>
ValueB == <<2>>

\* rlp::encode(&U256::default()): the empty string.
ZeroU256Rlp == RlpItem(<<>>)

\* Account::default().rlp_bytes(): [nonce 0, balance 0, zero hash, zero hash].
EmptyAccountRlp == ToRlpList(<< <<>>, <<>>, ZeroHash, ZeroHash >>)

NonEmptyValues == {ValueA, ValueB}
EmptyValues == {ZeroU256Rlp, EmptyAccountRlp}
Values == NonEmptyValues \cup EmptyValues

\* is_empty_value
is_empty_value(rlp_value) ==
    rlp_value = EmptyAccountRlp \/ rlp_value = ZeroU256Rlp

(***************************************************************************)
(* Hex-prefix paths and the traversal cursor (NibblePath)                  *)
(***************************************************************************)

PairUp(nibs) == [i \in 1 .. (Len(nibs) \div 2) |-> 16 * nibs[2 * i - 1] + nibs[2 * i]]

Unpair(bs) ==
    [i \in 1 .. 2 * Len(bs) |->
        IF i % 2 = 1 THEN bs[(i + 1) \div 2] \div 16 ELSE bs[i \div 2] % 16]

\* nibbles_to_prefixed_bytes: flag nibble 2 (leaf) or 0 (extension), plus 1
\* when the length is odd; an odd path's first nibble shares the flag's byte.
nibbles_to_prefixed_bytes(nibs, kind) ==
    LET flag == IF kind = "Leaf" THEN 2 ELSE 0
    IN  IF Len(nibs) % 2 = 1
        THEN <<16 * (flag + 1) + nibs[1]>> \o PairUp(Tail(nibs))
        ELSE <<16 * flag>> \o PairUp(nibs)

\* prefixed_bytes_to_nibbles
prefixed_bytes_to_nibbles(bytes) ==
    IF (bytes[1] \div 16) % 2 = 1
    THEN <<bytes[1] % 16>> \o Unpair(Tail(bytes))
    ELSE Unpair(Tail(bytes))

\* NibblePath::get_encoded_path: nibbles start..=end (indices from 0).
get_encoded_path(path, kind, start, end) ==
    nibbles_to_prefixed_bytes(SubSeq(path, start + 1, end + 1), kind)

\* First offset (from 1) at which the node's nibbles leave the path, 0 if none.
FirstMismatch(path, vi, nibs) ==
    LET bad == {i \in 1 .. Len(nibs) : path[vi + i] # nibs[i]}
    IN  IF bad = {} THEN 0 ELSE CHOOSE i \in bad : \A j \in bad : i <= j

\* The nature of a node's nibbles seen from cursor vi: whether they end the
\* path (full) and the offset m of the first one that leaves it (0 if none).
PathNature(vi, full, m) ==
    IF m = 0
    THEN [nature |-> IF full THEN "FullPathMatches" ELSE "SubPathMatches", index |-> 0]
    ELSE [nature |-> IF full THEN "FullPathDiverges" ELSE "SubPathDiverges",
          index |-> vi + m - 1]

MatchNibbles(path, vi, nibs) ==
    IF vi + Len(nibs) > PathLen THEN [nature |-> "PathError", index |-> 0]
    ELSE PathNature(vi, vi + Len(nibs) = PathLen, FirstMismatch(path, vi, nibs))

\* NibblePath::match_or_mismatch at cursor vi: the nature of the node's path
\* and, when it diverges, the absolute index of the first diverging nibble.
match_or_mismatch(path, vi, node_path) ==
    MatchNibbles(path, vi, prefixed_bytes_to_nibbles(node_path))

(***************************************************************************)
(* Node kinds                                                              *)
(***************************************************************************)

\* NodeKind::deduce
NodeKindDeduce(node) ==
    IF Len(node) = BranchItems THEN "Branch"
    ELSE IF Len(node) = 2
         THEN IF node[1] = <<>> THEN "NoEncoding"
              ELSE IF node[1][1] \div 16 \in {0, 1} THEN "Extension"
              ELSE IF node[1][1] \div 16 \in {2, 3} THEN "Leaf"
              ELSE "PathError"
         ELSE "NodeHasInvalidItemCount"

(***************************************************************************)
(* The pre-state trie the input proofs are taken from (eth_getProof)       *)
(***************************************************************************)

Restrict(f, S) == [x \in S |-> f[x]]

\* Number of nibbles after depth d that all keys of ks share.
CommonLen(ks, d) ==
    LET k0 == CHOOSE k \in ks : TRUE
        ok == {c \in 0 .. PathLen - d : \A k \in ks : \A i \in d + 1 .. d + c : k[i] = k0[i]}
    IN  CHOOSE c \in ok : \A c2 \in ok : c2 <= c

RECURSIVE RefNode(_, _)
\* The RLP of the Merkle-Patricia node holding the leaves lv (a non-empty
\* function from keys to values) below depth d.
RefNode(lv, d) ==
    LET ks == DOMAIN lv
        k0 == CHOOSE k \in ks : TRUE
    IN  IF Cardinality(ks) = 1
        THEN ToRlpList(<<nibbles_to_prefixed_bytes(SubSeq(k0, d + 1, PathLen), "Leaf"), lv[k0]>>)
        ELSE LET c == CommonLen(ks, d)
             IN  IF c > 0
                 THEN ToRlpList(<<nibbles_to_prefixed_bytes(SubSeq(k0, d + 1, d + c), "Extension"),
                                  Keccak(RefNode(lv, d + c))>>)
                 ELSE ToRlpList([i \in 1 .. BranchItems |->
                          LET sub == {k \in ks : i - 1 = k[d + 1]}
                          IN  IF i = BranchItems \/ sub = {} THEN <<>>
                              ELSE Keccak(RefNode(Restrict(lv, sub), d + 1))])

\* Root of the reference trie holding exactly the leaves lv.
RefRoot(lv) == Keccak(RefNode(lv, 0))

RECURSIVE RefProof(_, _, _)
\* The nodes of the reference trie on the way of path p, root first: the
\* account_proof / storage proof of an EIP-1186 response.
RefProof(lv, d, p) ==
    LET ks == DOMAIN lv
        k0 == CHOOSE k \in ks : TRUE
        c  == CommonLen(ks, d)
        sub == {k \in ks : k[d + 1] = p[d + 1]}
    IN  <<RefNode(lv, d)>> \o
        (IF Cardinality(ks) = 1 THEN <<>>
         ELSE IF c > 0
              THEN IF \A i \in d + 1 .. d + c : p[i] = k0[i]
                   THEN RefProof(lv, d + c, p) ELSE <<>>
              ELSE IF sub = {} THEN <<>> ELSE RefProof(Restrict(lv, sub), d + 1, p))

\* The value the pre-state holds at key k.  Keys are digests, so two keys
\* never agree on all the nibbles after the one they part at and no two
\* leaves of a trie are the same node; with keys this short the model keeps
\* that by giving each key of the pre-state a value of its own.
SeedValue(k) == <<3>> \o k

\* The pre-state tries: up to MaxLeaves keys, each holding its value.
Worlds ==
    {[k \in ks |-> SeedValue(k)] :
        ks \in {s \in SUBSET SeedKeys : Cardinality(s) \in 1 .. MaxLeaves}}

(***************************************************************************)
(* State                                                                   *)
(***************************************************************************)

VARIABLES
    data,    \* MultiProof.data: node hash -> node RLP
    root,    \* MultiProof.root
    world,   \* the pre-state leaves the input proofs are taken from
    proofs,  \* the input proofs: for each key, the pre-state nodes on its path
    leaves,  \* the leaves the successful calls so far have asked for
    nMods,   \* number of mutating traversals made
    last,    \* the last call: operation, arguments, result, terminus
    block_proofs,  \* BlockProofs.proofs handed to SlimBlockStateProof::create
    slim,          \* what SlimBlockStateProof::create returned
    parcel,        \* a RequiredBlockState
    ssz_data,      \* what to_ssz_bytes returned for the parcel
    decoded,       \* what from_ssz_bytes returned for ssz_data
    block_evm,     \* a BlockEvm: tx_env_status, evm.env.tx, committed transactions
    evm_calls,     \* the calls made on block_evm: successful loads and executions, last call
    executor,      \* a loaded BlockExecutor: its block and its proof cache
    trace,         \* what trace_block or trace_transaction returned
    response,      \* an EIP1186ProofResponse and what its proofs verify as
    verified,      \* what verify_proof returned for the response
    block_states,  \* the pre-state and post-state BlockProofs of a block
    simulated,     \* what oracle_from_simulated_state_update did and returned
    viewer         \* what MultiProof::view returned for a path

\* The variables of the multiproof store and those of the other components.
trieVars == <<data, root, world, proofs, leaves, nMods, last>>
slimVars == <<block_proofs, slim>>
codecVars == <<parcel, ssz_data, decoded>>
evmVars == <<block_evm, evm_calls>>
traceVars == <<executor, trace>>
verifyVars == <<response, verified>>
oracleVars == <<block_states, simulated>>
restVars == <<verifyVars, oracleVars, viewer>>

vars == <<trieVars, slimVars, codecVars, evmVars, traceVars, restVars>>

\* The components a specification leaves aside stay as constructed.
SlimIdle == block_proofs = <<>> /\ slim = [res |-> "none"]
CodecIdle == parcel = <<>> /\ ssz_data = [res |-> "none"] /\ decoded = [res |-> "none"]
EvmIdle ==
    /\ block_evm = [tx_env_status |-> "NotLoaded", tx |-> "default", committed |-> 0, traced |-> 0]
    /\ evm_calls = [n |-> 0, loads |-> 0, executions |-> 0, op |-> "init", res |-> "Ok"]
TraceIdle == executor = <<>> /\ trace = [res |-> "none"]
VerifyIdle == response = <<>> /\ verified = [res |-> "none"]
OracleIdle == block_states = <<>> /\ simulated = [res |-> "none"]
ViewIdle == viewer = [res |-> "none"]
RestIdle == VerifyIdle /\ OracleIdle /\ ViewIdle

\* HashMap::insert and HashMap::remove on MultiProof.data.
DataInsert(d, h, b) == [x \in DOMAIN d \cup {h} |-> IF x = h THEN b ELSE d[x]]
DataRemove(d, h) == [x \in DOMAIN d \ {h} |-> d[x]]

EmptyData == [x \in {} |-> <<>>]


(***************************************************************************)
(* MultiProof::insert_proof                                                *)
(***************************************************************************)

RECURSIVE InsertNodes(_, _)
\* The loop of insert_proof once the first node has passed the root check.
InsertNodes(d, nodes) ==
    IF nodes = <<>> THEN d
    ELSE InsertNodes(DataInsert(d, Keccak(Head(nodes)), Head(nodes)), Tail(nodes))

\* RootAfterFirst that takes the first node's hash whatever the root is.
RootFromFirst(r, hash0) == hash0

\* The root after the first node (hash0) has been seen: it becomes the root
\* of a store that has none.
RootAfterFirst(r, hash0) == IF r = ZeroHash THEN hash0 ELSE r

\* The outcome of insert_proof given the root after the first node.
InsertChecked(st, proof, root1) ==
    IF Keccak(proof[1]) # root1
    THEN [data |-> st.data, root |-> root1, res |-> "ProofRootMismatch"]
    ELSE [data |-> InsertNodes(st.data, proof), root |-> root1, res |-> "Ok"]

\* insert_proof: the first node sets the root of a store that has none, and
\* must hash to the root of a store that has one.
insert_proof(st, proof) ==
    InsertChecked(st, proof, RootAfterFirst(st.root, Keccak(proof[1])))

(***************************************************************************)
(* The mutation engine                                                     *)
(***************************************************************************)

\* The result of a step of the engine: the store's map, the hash handed to
\* the parent, the outcome, and the number of visited nodes the step settled.
Step(d, hash, res, processed) ==
    [data |-> d, hash |-> hash, res |-> res, processed |-> processed]

\* StoreNode with the digest taken over the RLP without its first byte.
StoreNodeHeaderless(d, node_rlp) ==
    Step(DataInsert(d, Keccak(Tail(node_rlp)), node_rlp), Keccak(Tail(node_rlp)), "Ok", 1)

\* keccak256 of a node's RLP and HashMap::insert of the node under it.
StoreNode(d, node_rlp) == Step(DataInsert(d, Keccak(node_rlp), node_rlp), Keccak(node_rlp), "Ok", 1)

\* The items of a branch with the item at item_index replaced.
ReplaceItem(node, item_index, item) ==
    [i \in 1 .. Len(node) |-> IF i - 1 = item_index THEN item ELSE node[i]]

\* child_count of update_node_with_child_hash: the replaced item and every
\* other non-empty item.
ChildCount(node, item_index) ==
    Cardinality({i \in 1 .. Len(node) : i - 1 = item_index \/ node[i] # <<>>})

\* update_node_with_child_hash once the outdated node is out of the store.
UpdateOutdated(d1, visited, child_hash, outdated_node) ==
    CASE visited.kind = "Branch" ->
            IF ChildCount(outdated_node, visited.item_index) = 1 /\ child_hash # ZeroHash
            THEN Step(d1, child_hash, "panic", 0)
            ELSE StoreNode(d1, ToRlpList(ReplaceItem(outdated_node, visited.item_index, child_hash)))
      [] visited.kind = "Extension" ->
            IF outdated_node = <<>>
            THEN Step(d1, child_hash, "ModifyError::ExtensionHasNoPath", 0)
            ELSE StoreNode(d1, ToRlpList(<<outdated_node[1], child_hash>>))
      [] OTHER -> Step(d1, child_hash, "panic", 0)

\* update_node_with_child_hash that stores the node with the child hash it
\* had.
update_node_keeping_child_hash(d, visited, child_hash) ==
    IF visited.node_hash \notin DOMAIN d
    THEN Step(d, child_hash, "ModifyError::NoNodeForHash", 0)
    ELSE StoreNode(DataRemove(d, visited.node_hash), d[visited.node_hash])

\* update_node_with_child_hash: replace the child hash of a visited node,
\* store the node under its new hash and return that hash.
update_node_with_child_hash(d, visited, child_hash) ==
    IF visited.node_hash \notin DOMAIN d
    THEN Step(d, child_hash, "ModifyError::NoNodeForHash", 0)
    ELSE UpdateOutdated(DataRemove(d, visited.node_hash), visited, child_hash,
                        DecodeList(d[visited.node_hash]))

RECURSIVE RehashUp(_, _, _)
\* The loop `for outdated in visited.iter().rev().skip(..)`: update the visited
\* nodes k, k-1, .., 1 (root last), stopping at the first error.
RehashUp(r, visited, k) ==
    IF r.res # "Ok" \/ k <= 0 THEN r
    ELSE RehashUp(update_node_with_child_hash(r.data, visited[k], r.hash), visited, k - 1)

\* split_at(num_common) of the old node's nibbles.
SplitAt(nibs, num_common) ==
    [common_nibbles |-> SubSeq(nibs, 1, num_common),
     divergent_nibbles |-> SubSeq(nibs, num_common + 1, Len(nibs))]

\* The new branch of add_branch_for_new_leaf: the shortened old node and the
\* new leaf are its only children.
NewBranch(leaf_hash, updated_node, leaf_index, updated_node_index_in_branch) ==
    StoreNode(updated_node.data,
              ToRlpList([i \in 1 .. BranchItems |->
                  IF i - 1 = leaf_index THEN leaf_hash
                  ELSE IF i - 1 = updated_node_index_in_branch THEN updated_node.hash
                  ELSE <<>>]))

\* CommonExtension that hands the branch to the parent whatever the old
\* node and the new leaf share.
BranchWithoutExtension(branch, common_nibbles) == branch

\* The end of add_branch_for_new_leaf: an extension above the new branch
\* when the old node and the new leaf share nibbles.
CommonExtension(branch, common_nibbles) ==
    IF common_nibbles = <<>> THEN branch
    ELSE StoreNode(branch.data,
                   ToRlpList(<<nibbles_to_prefixed_bytes(common_nibbles, "Extension"),
                               branch.hash>>))

\* add_branch_for_new_leaf once the new leaf is stored: the old node loses
\* the shared nibbles and the nibble that indexes it in the new branch.
BranchOver(leaf, old_node, old_node_kind, leaf_index, split) ==
    IF split.divergent_nibbles = <<>>
    THEN Step(leaf.data, leaf.hash, "ModifyError::NodePathTooShort", 0)
    ELSE CommonExtension(
             NewBranch(leaf.hash,
                       StoreNode(leaf.data,
                                 ToRlpList([old_node EXCEPT ![1] =
                                     nibbles_to_prefixed_bytes(Tail(split.divergent_nibbles),
                                                               old_node_kind)])),
                       leaf_index,
                       Head(split.divergent_nibbles)),
             split.common_nibbles)

\* add_branch_for_new_leaf: the new leaf, the old node shortened, a branch
\* holding both and, when the paths share nibbles, an extension above it.
add_branch_for_new_leaf(d, old_node, last_visited, path, divergent_nibble_index, old_node_kind, new_leaf_value) ==
    BranchOver(StoreNode(d, ToRlpList(<<get_encoded_path(path, "Leaf",
                                            divergent_nibble_index + 1, PathLen - 1),
                                        new_leaf_value>>)),
               old_node, old_node_kind, path[divergent_nibble_index + 1],
               SplitAt(prefixed_bytes_to_nibbles(old_node[1]),
                       divergent_nibble_index - last_visited.visiting_index))

\* resolve_child_and_grandparent_paths: reads the grandparent, then reaches
\* a todo!() whether or not the store holds the only child.
resolve_child_and_grandparent_paths(d, only_child_hash, only_child_nibble, grandparent_hash) ==
    IF grandparent_hash \notin DOMAIN d
    THEN Step(d, grandparent_hash, "ModifyError::NoNodeForHash", 0)
    ELSE Step(d, grandparent_hash, "panic", 0)

\* The non-empty items of a branch other than the one at item_index.
OtherChildren(node, item_index) ==
    {i \in 1 .. Len(node) : i - 1 # item_index /\ node[i] # <<>>}

\* non_empty_child_index + 1: the last of the other children.
LastChild(others) == CHOOSE i \in others : \A j \in others : j <= i

\* The Branch arm of process_child_removal, by the number of children left.
BranchChildRemoved(d1, visit_record, node_index, updated, others) ==
    IF others = {} THEN Step(d1, ZeroHash, "panic", 0)
    ELSE IF Cardinality(others) = 1
         THEN resolve_child_and_grandparent_paths(d1, updated[LastChild(others)],
                  LastChild(others) - 1, visit_record[node_index].node_hash)
         ELSE Step(DataInsert(d1, Keccak(ToRlpList(updated)), ToRlpList(updated)),
                   Keccak(ToRlpList(updated)), "Ok", node_index)

\* process_child_removal once the outdated node is out of the store.
ChildRemoved(d1, visit_record, node_index, visited, outdated_node) ==
    CASE visited.kind = "Branch" ->
            BranchChildRemoved(d1, visit_record, node_index,
                               ReplaceItem(outdated_node, visited.item_index, <<>>),
                               OtherChildren(outdated_node, visited.item_index))
      [] visited.kind = "Extension" ->
            IF outdated_node = <<>>
            THEN Step(d1, ZeroHash, "ModifyError::ExtensionHasNoPath", 0)
            ELSE Step(d1, ZeroHash, "panic", 0)
      [] OTHER -> Step(d1, ZeroHash, "panic", 0)

\* The first turn of the loop of process_child_removal, at the visited node.
RemoveChildFrom(d, visit_record, node_index, visited) ==
    IF visited.node_hash \notin DOMAIN d
    THEN Step(d, ZeroHash, "ModifyError::NoNodeForHash", 0)
    ELSE ChildRemoved(DataRemove(d, visited.node_hash), visit_record, node_index, visited,
                      DecodeList(d[visited.node_hash]))

\* process_child_removal: erase the removed child from the node at
\* visit_index of the visit record.  Every arm of its loop returns or stops
\* at a todo!(), so the loop body runs once.
process_child_removal(d, visit_record, visit_index) ==
    IF visit_index = 0 THEN Step(d, ZeroHash, "panic", 0)
    ELSE IF visit_index + 1 > Len(visit_record)
         THEN Step(d, ZeroHash, "ModifyError::NoVisitedNode", 0)
         ELSE RemoveChildFrom(d, visit_record, visit_index, visit_record[visit_index + 1])

Change(kind, new_value, divergent_nibble_index) ==
    [kind |-> kind, new_value |-> new_value, divergent_nibble_index |-> divergent_nibble_index]

\* The changes that turn an exclusion terminus into an inclusion.
ExclusionToInclusion ==
    {"BranchExclusionToInclusion", "ExtensionExclusionToInclusion", "LeafExclusionToInclusion"}

\* BranchWithLeaf that stores the branch without the leaf's hash.
BranchWithoutLeaf(leaf, old_node, branch_item_index) ==
    StoreNode(leaf.data, ToRlpList(old_node))

\* BranchExclusionToInclusion once the new leaf is stored: the branch takes
\* the leaf's hash at the path's nibble.
BranchWithLeaf(leaf, old_node, branch_item_index) ==
    StoreNode(leaf.data, ToRlpList(ReplaceItem(old_node, branch_item_index, leaf.hash)))

\* The change near the terminus, made on the map d1 the terminal node
\* old_node has been taken out of.
NearTerminus(change, visited, last_visited, path, d1, old_node) ==
    CASE change.kind = "BranchExclusionToInclusion" ->
            BranchWithLeaf(
                StoreNode(d1, ToRlpList(<<get_encoded_path(path, "Leaf",
                                              last_visited.visiting_index + 1, PathLen - 1),
                                          change.new_value>>)),
                old_node, path[last_visited.visiting_index + 1])
      [] change.kind \in {"ExtensionExclusionToInclusion", "LeafExclusionToInclusion"} ->
            add_branch_for_new_leaf(d1, old_node, last_visited, path,
                change.divergent_nibble_index,
                IF change.kind = "ExtensionExclusionToInclusion" THEN "Extension" ELSE "Leaf",
                change.new_value)
      [] change.kind = "LeafInclusionModify" ->
            StoreNode(d1, ToRlpList(<<old_node[1], change.new_value>>))
      [] OTHER ->  \* LeafInclusionToExclusion
            process_child_removal(d1, visited, Len(visited) - 1)

\* The hash updates from the node above those the change settled up to the
\* root.
RehashFrom(r, visited) == RehashUp(r, visited, Len(visited) - r.processed)

\* The end of apply_changes: the last hash becomes the root; an error keeps
\* the root and whatever the map held when it was raised.
Rooted(st, r) ==
    IF r.res = "Ok" THEN [data |-> r.data, root |-> r.hash, res |-> "Ok"]
    ELSE [data |-> r.data, root |-> st.root, res |-> r.res]

\* ApplyRemoved that returns on an empty value without putting the node back.
ApplyRemovedNotPutBack(st, change, visited, path, old_terminal_hash, d1) ==
    IF change.kind \in ExclusionToInclusion /\ is_empty_value(change.new_value)
    THEN [data |-> d1, root |-> st.root, res |-> "Ok"]
    ELSE Rooted(st, RehashFrom(NearTerminus(change, visited, visited[Len(visited)], path, d1,
                                            DecodeList(st.data[old_terminal_hash])),
                               visited))

\* apply_changes once the terminal node is out of the map: an empty value
\* at an exclusion terminus puts the node back and returns.
ApplyRemoved(st, change, visited, path, old_terminal_hash, d1) ==
    IF change.kind \in ExclusionToInclusion /\ is_empty_value(change.new_value)
    THEN [data |-> DataInsert(d1, old_terminal_hash, st.data[old_terminal_hash]),
          root |-> st.root, res |-> "Ok"]
    ELSE Rooted(st, RehashFrom(NearTerminus(change, visited, visited[Len(visited)], path, d1,
                                            DecodeList(st.data[old_terminal_hash])),
                               visited))

\* apply_changes: take the terminal node out of the store, make the change
\* near the terminus, then rehash the visited nodes up to a new root.
apply_changes(st, change, visited, path) ==
    IF visited[Len(visited)].node_hash \notin DOMAIN st.data
    THEN [data |-> st.data, root |-> st.root, res |-> "ModifyError::NoNodeForHash"]
    ELSE ApplyRemoved(st, change, visited, path, visited[Len(visited)].node_hash,
                      DataRemove(st.data, visited[Len(visited)].node_hash))

(***************************************************************************)
(* MultiProof::traverse                                                    *)
(***************************************************************************)

Intent(kind, val) == [kind |-> kind, val |-> val]
Modify(v) == Intent("Modify", v)
RemoveIntent == Intent("Remove", <<>>)
VerifyInclusion(v) == Intent("VerifyInclusion", v)
VerifyExclusion == Intent("VerifyExclusion", <<>>)

Outcome(st, res, term) == [data |-> st.data, root |-> st.root, res |-> res, term |-> term]

WithTerm(r, term) == [data |-> r.data, root |-> r.root, res |-> r.res, term |-> term]

VisitedNode(kind, node_hash, item_index, visiting_index) ==
    [kind |-> kind, node_hash |-> node_hash, item_index |-> item_index,
     visiting_index |-> visiting_index]

\* What one turn of traverse's loop finds at a node: an error (act "stop"),
\* a child to go on with (act "descend") or a terminus.
Turn(act, res, term, index, leaf_value, visit, next_node_hash, next_vi) ==
    [act |-> act, res |-> res, term |-> term, index |-> index, leaf_value |-> leaf_value,
     visit |-> visit, next_node_hash |-> next_node_hash, next_vi |-> next_vi]

NoVisit == VisitedNode("none", ZeroHash, 0, 0)

Stop(res) == Turn("stop", res, "none", 0, <<>>, NoVisit, ZeroHash, 0)

Descend(visit, next_node_hash, next_vi) ==
    Turn("descend", "Ok", "none", 0, <<>>, visit, next_node_hash, next_vi)

Terminus(term, index, leaf_value, visit) ==
    Turn("terminus", "Ok", term, index, leaf_value, visit, ZeroHash, 0)

\* The Branch arm: an empty item ends the walk, any other is the next hash.
BranchTurn(visit, item, vi) ==
    IF item = <<>> THEN Terminus("BranchExclusion", 0, <<>>, visit)
    ELSE Descend(visit, item, vi + 1)

\* The Extension arm, by the nature m of the extension's path.
ExtensionTurn(visit, next_node, vi, m) ==
    CASE m.nature = "PathError" -> Stop("PathError")
      [] m.nature = "SubPathMatches" ->
            Descend(visit, next_node[2], vi + Len(prefixed_bytes_to_nibbles(next_node[1])))
      [] m.nature = "SubPathDiverges" -> Terminus("ExtensionExclusion", m.index, <<>>, visit)
      [] OTHER -> Stop("FinalExtension")

\* LeafTurn that takes every leaf that ends the path for the path's leaf.
LeafTurnAnyLeaf(visit, next_node, m) ==
    CASE m.nature = "PathError" -> Stop("PathError")
      [] m.nature \in {"SubPathMatches", "SubPathDiverges"} -> Stop("LeafPathIncomplete")
      [] OTHER -> Terminus("LeafInclusion", 0, next_node[2], visit)

\* The Leaf arm, by the nature m of the leaf's path.
LeafTurn(visit, next_node, m) ==
    CASE m.nature = "PathError" -> Stop("PathError")
      [] m.nature \in {"SubPathMatches", "SubPathDiverges"} -> Stop("LeafPathIncomplete")
      [] m.nature = "FullPathMatches" -> Terminus("LeafInclusion", 0, next_node[2], visit)
      [] OTHER -> Terminus("LeafExclusion", m.index, <<>>, visit)

\* The match on NodeKind::deduce(&next_node).
TurnOfKind(path, next_node_hash, vi, next_node, kind) ==
    CASE kind = "Branch" ->
            IF vi >= PathLen THEN Stop("PathError")
            ELSE BranchTurn(VisitedNode(kind, next_node_hash, path[vi + 1], vi),
                            next_node[path[vi + 1] + 1], vi)
      [] kind = "Extension" ->
            ExtensionTurn(VisitedNode(kind, next_node_hash, 1, vi), next_node, vi,
                          match_or_mismatch(path, vi, next_node[1]))
      [] kind = "Leaf" ->
            LeafTurn(VisitedNode(kind, next_node_hash, 1, vi), next_node,
                     match_or_mismatch(path, vi, next_node[1]))
      [] OTHER -> Stop(kind)

TurnOfNode(path, next_node_hash, vi, next_node) ==
    TurnOfKind(path, next_node_hash, vi, next_node, NodeKindDeduce(next_node))

\* One turn of traverse's loop: the node at next_node_hash, reached with
\* the cursor at visiting index vi.
TurnAt(st, path, next_node_hash, vi) ==
    IF next_node_hash \notin DOMAIN st.data THEN Stop("NoNodeForHash")
    ELSE TurnOfNode(path, next_node_hash, vi, DecodeList(st.data[next_node_hash]))

\* The Change traverse hands to apply_changes at a terminus.
ChangeKind(term, intent) ==
    CASE term = "LeafInclusion" ->
            IF intent.kind = "Modify" THEN "LeafInclusionModify" ELSE "LeafInclusionToExclusion"
      [] term = "BranchExclusion" -> "BranchExclusionToInclusion"
      [] term = "ExtensionExclusion" -> "ExtensionExclusionToInclusion"
      [] OTHER -> "LeafExclusionToInclusion"

\* Unchanging without the comparison of the leaf's data.
UnchangingUncompared(term, intent, leaf_value) ==
    IF term = "LeafInclusion"
    THEN IF intent.kind = "VerifyExclusion" THEN "ExclusionRequired" ELSE "Ok"
    ELSE IF intent.kind = "VerifyInclusion" THEN "InclusionRequired" ELSE "Ok"

\* Unchanging that requires neither inclusion nor exclusion.
UnchangingWithoutRequirement(term, intent, leaf_value) ==
    IF term = "LeafInclusion" /\ intent.kind = "VerifyInclusion" /\ leaf_value # intent.val
    THEN "IncorrectLeafData"
    ELSE "Ok"

\* What traverse returns at a terminus it does not change.
Unchanging(term, intent, leaf_value) ==
    IF term = "LeafInclusion"
    THEN IF intent.kind = "VerifyExclusion" THEN "ExclusionRequired"
         ELSE IF leaf_value # intent.val THEN "IncorrectLeafData" ELSE "Ok"
    ELSE IF intent.kind = "VerifyInclusion" THEN "InclusionRequired" ELSE "Ok"

\* AtTerminus that hands every Remove to apply_changes.
AtTerminusRemoveChanges(st, path, intent, visited, term, index, leaf_value) ==
    IF intent.kind \in {"Modify", "Remove"}
    THEN WithTerm(apply_changes(st, Change(ChangeKind(term, intent), intent.val, index),
                                visited, path),
                  term)
    ELSE Outcome(st, Unchanging(term, intent, leaf_value), term)

\* AtTerminus that hands the value of a VerifyInclusion to apply_changes.
AtTerminusVerifyChanges(st, path, intent, visited, term, index, leaf_value) ==
    IF intent.kind \in {"Modify", "VerifyInclusion"}
           \/ (intent.kind = "Remove" /\ term = "LeafInclusion")
    THEN WithTerm(apply_changes(st, Change(ChangeKind(term, intent), intent.val, index),
                                visited, path),
                  term)
    ELSE Outcome(st, Unchanging(term, intent, leaf_value), term)

\* What traverse does at a terminus: hand a change to apply_changes (Modify
\* anywhere, Remove at an included leaf) or return.
AtTerminus(st, path, intent, visited, term, index, leaf_value) ==
    IF intent.kind = "Modify" \/ (intent.kind = "Remove" /\ term = "LeafInclusion")
    THEN WithTerm(apply_changes(st, Change(ChangeKind(term, intent), intent.val, index),
                                visited, path),
                  term)
    ELSE Outcome(st, Unchanging(term, intent, leaf_value), term)

RECURSIVE Walk(_, _, _, _, _)
\* traverse's loop: t is what the turn at the current node found.
Walk(st, path, intent, visited_nodes, t) ==
    CASE t.act = "stop" -> Outcome(st, t.res, "none")
      [] t.act = "descend" ->
            Walk(st, path, intent, Append(visited_nodes, t.visit),
                 TurnAt(st, path, t.next_node_hash, t.next_vi))
      [] OTHER ->
            AtTerminus(st, path, intent, Append(visited_nodes, t.visit),
                       t.term, t.index, t.leaf_value)

\* traverse(path, intent) on the store st = [data, root].
traverse(st, path, intent) == Walk(st, path, intent, <<>>, TurnAt(st, path, st.root, 0))

(***************************************************************************)
(* The state machine: one store, fed proofs and traversed                  *)
(***************************************************************************)

Store == [data |-> data, root |-> root]

ExclusionTermini == {"BranchExclusion", "ExtensionExclusion", "LeafExclusion"}

\* What is kept of a call: the operation, whether a mutation was handed an
\* empty value, its result and the terminus the traversal ended at.
Call(op, val, res, term) ==
    [op |-> op, empty |-> is_empty_value(val), res |-> res, term |-> term]

\* A root no pre-state has: the digest of an empty list.
OtherRoot == Keccak(ToRlpList(<<>>))

\* A new store: MultiProof::default() has no root, MultiProof::init(root)
\* is given the root of the pre-state trie or some other root.
Init ==
    /\ world \in Worlds
    /\ proofs = [k \in Keys |-> RefProof(world, 0, k)]
    /\ data = EmptyData
    /\ root \in {ZeroHash, RefRoot(world), OtherRoot}
    /\ leaves = world
    /\ nMods = 0
    /\ last = Call("init", <<>>, "Ok", "none")
    /\ SlimIdle /\ CodecIdle /\ EvmIdle /\ TraceIdle /\ RestIdle

\* A todo!() reached: the process has stopped.
Running == last.res # "panic"

\* The store and the record of the call after a call that returned r.
Returned(r, op, val) ==
    /\ data' = r.data
    /\ root' = r.root
    /\ last' = Call(op, val, r.res, r.term)
    /\ UNCHANGED <<slimVars, codecVars, evmVars, traceVars, restVars>>

\* insert_proof with the pre-state proof of key k.
InsertProof ==
    /\ Running
    /\ \E k \in Keys : Returned(WithTerm(insert_proof(Store, proofs[k]), "none"),
                                "InsertProof", <<>>)
    /\ UNCHANGED <<world, proofs, leaves, nMods>>

\* traverse(p, VerifyInclusion(v))
TraverseVerifyInclusion ==
    /\ Running
    /\ \E p \in Keys : \E v \in Values \cup {SeedValue(p)} :
          Returned(traverse(Store, p, VerifyInclusion(v)), "VerifyInclusion", <<>>)
    /\ UNCHANGED <<world, proofs, leaves, nMods>>

\* traverse(p, VerifyExclusion)
TraverseVerifyExclusion ==
    /\ Running
    /\ \E p \in Keys : Returned(traverse(Store, p, VerifyExclusion), "VerifyExclusion", <<>>)
    /\ UNCHANGED <<world, proofs, leaves, nMods>>

\* The leaves asked for after traverse(p, Modify(v)) returned r: a successful
\* call that is not suppressed asks for the leaf (p, v).
LeavesModified(r, p, v) ==
    IF r.res = "Ok" /\ ~(r.term \in ExclusionTermini /\ is_empty_value(v))
    THEN [k \in DOMAIN leaves \cup {p} |-> IF k = p THEN v ELSE leaves[k]]
    ELSE leaves

\* The leaves asked for after traverse(p, Remove) returned r: a successful
\* call at an included leaf asks for its absence.
LeavesRemoved(r, p) ==
    IF r.res = "Ok" /\ r.term = "LeafInclusion"
    THEN Restrict(leaves, DOMAIN leaves \ {p})
    ELSE leaves

\* A mutating traversal that returned r.
Mutated(r, op, val, leaves1) ==
    /\ Returned(r, op, val)
    /\ leaves' = leaves1
    /\ nMods' = nMods + 1
    /\ UNCHANGED <<world, proofs>>

\* traverse(p, Modify(v))
TraverseModify ==
    /\ Running
    /\ nMods < MaxMods
    /\ \E p \in Keys, v \in Values :
          Mutated(traverse(Store, p, Modify(v)), "Modify", v,
                  LeavesModified(traverse(Store, p, Modify(v)), p, v))

\* traverse(p, Remove)
TraverseRemove ==
    /\ Running
    /\ nMods < MaxMods
    /\ \E p \in Keys :
          Mutated(traverse(Store, p, RemoveIntent), "Remove", <<>>,
                  LeavesRemoved(traverse(Store, p, RemoveIntent), p))

Next ==
    \/ InsertProof
    \/ TraverseVerifyInclusion
    \/ TraverseVerifyExclusion
    \/ TraverseModify
    \/ TraverseRemove

Spec == Init /\ [][Next]_vars

\* Pre-state tries whose leaves all hold the same value: two keys that agree
\* on every nibble after the one they part at have the same leaf node, which
\* the store holds once.
SharedWorlds ==
    {[k \in ks |-> ValueA] : ks \in {s \in SUBSET SeedKeys : Cardinality(s) \in 1 .. MaxLeaves}}

\* A new store for the proofs of such a trie.
SharedInit ==
    /\ world \in SharedWorlds
    /\ proofs = [k \in Keys |-> RefProof(world, 0, k)]
    /\ data = EmptyData
    /\ root \in {ZeroHash, RefRoot(world), OtherRoot}
    /\ leaves = world
    /\ nMods = 0
    /\ last = Call("init", <<>>, "Ok", "none")
    /\ SlimIdle /\ CodecIdle /\ EvmIdle /\ TraceIdle /\ RestIdle

SpecShared == SharedInit /\ [][Next]_vars

(***************************************************************************)
(* SlimBlockStateProof::create (crates/inventory/src/transferrable.rs):    *)
(* trie nodes are taken out of the EIP-1186 proofs into two lists and the  *)
(* proofs keep the nodes' indices.  The balance, nonce, code hash, storage *)
(* hash and storage value of a proof are carried over field by field and   *)
(* are left out here.                                                      *)
(***************************************************************************)

\* Largest number of accounts with a proof in a block.
MaxAccounts == 2

\* Number of distinct trie nodes the proofs are made of.
NodeKinds == 2

\* Largest number of nodes of one account proof or storage proof.
MaxProofNodes == 2

\* Largest number of storage proofs of an account.
MaxStorageProofs == 1

Addresses == 1 .. MaxAccounts

\* Trie nodes, as byte strings.
TrieNodes == {<<192 + n>> : n \in 1 .. NodeKinds}

\* Contract bytecodes, as byte strings.
ContractCodes == {<<96>>, <<96, 0>>}

Range(s) == {s[i] : i \in DOMAIN s}

\* Vec<Bytes>: the node lists of a proof; a node may occur more than once.
NodeLists == UNION {[1 .. k -> TrieNodes] : k \in 0 .. MaxProofNodes}

\* Vec<StorageProof>: key and proof.
StorageProofLists ==
    UNION {{[i \in 1 .. k |-> [key |-> i, proof |-> f[i]]] : f \in [1 .. k -> NodeLists]} :
           k \in 0 .. MaxStorageProofs}

\* HashMap<H160, EIP1186ProofResponse>: the response's address is its key.
BlockProofsInputs ==
    UNION {[as -> [account_proof : NodeLists, storage_proof : StorageProofLists]] :
           as \in SUBSET Addresses}

\* The orders a HashSet or HashMap may be iterated in.
Orders(S) == {s \in [1 .. Cardinality(S) -> S] : Range(s) = S}

\* get_trie_node_set up to the two HashSets: every node of every account
\* proof, every node of every storage proof.
get_trie_node_set(proofs_in) ==
    [account |-> UNION {Range(proofs_in[a].account_proof) : a \in DOMAIN proofs_in},
     storage |-> UNION {UNION {Range(proofs_in[a].storage_proof[i].proof) :
                               i \in DOMAIN proofs_in[a].storage_proof} :
                        a \in DOMAIN proofs_in}]

\* IntoVecs that lets one node come twice.
IntoVecsWithRepeat(node_set) ==
    {s \in [1 .. Cardinality(node_set) + 1 -> node_set] : Range(s) = node_set}

\* account_set.into_iter().collect(): the Vecs a HashSet may be collected
\* into, one per iteration order.
IntoVecs(node_set) == Orders(node_set)

TrieNodesSet(account, storage) == [account |-> account, storage |-> storage]

\* The index HashMap::insert leaves for a node: that of its last occurrence.
IndexIn(list, node) ==
    (CHOOSE i \in DOMAIN list :
        list[i] = node /\ \A j \in DOMAIN list : list[j] = node => j <= i) - 1

\* get_node_map that counts the nodes from one.
get_node_map_from_one(node_set) ==
    [account |-> [n \in Range(node_set.account) |-> IndexIn(node_set.account, n) + 1],
     storage |-> [n \in Range(node_set.storage) |-> IndexIn(node_set.storage, n) + 1]]

\* get_node_map: node -> index in the list, for both lists.
get_node_map(node_set) ==
    [account |-> [n \in Range(node_set.account) |-> IndexIn(node_set.account, n)],
     storage |-> [n \in Range(node_set.storage) |-> IndexIn(node_set.storage, n)]]

\* Largest u16.
U16Max == 65535

\* What the loop of nodes_to_node_indices does with one node: the node has
\* no index, or usize_to_u16 refuses the index, or the index is pushed.
NodeIndexResult(node, map) ==
    IF node \notin DOMAIN map THEN "NoIndexForNode"
    ELSE IF map[node] > U16Max THEN "UtilsError"
    ELSE "Ok"

\* The position of the first node of proof the loop stops at.
FirstFailing(proof, map) ==
    CHOOSE i \in DOMAIN proof :
        /\ NodeIndexResult(proof[i], map) # "Ok"
        /\ \A j \in 1 .. i - 1 : NodeIndexResult(proof[j], map) = "Ok"

\* nodes_to_node_indices: the proof's nodes replaced by their indices.
nodes_to_node_indices(proof, map) ==
    IF \E i \in DOMAIN proof : NodeIndexResult(proof[i], map) # "Ok"
    THEN [res |-> NodeIndexResult(proof[FirstFailing(proof, map)], map), indices |-> <<>>]
    ELSE [res |-> "Ok", indices |-> [i \in DOMAIN proof |-> map[proof[i]]]]

\* The first result of a list of results that is an error, or Ok.
FirstError(results) ==
    IF \A i \in DOMAIN results : results[i].res = "Ok" THEN "Ok"
    ELSE results[CHOOSE i \in DOMAIN results :
                    /\ results[i].res # "Ok"
                    /\ \A j \in 1 .. i - 1 : results[j].res = "Ok"].res

\* The storage proofs of one response, each with its indices.
SlimStorageProofs(storage_proof, map) ==
    [i \in DOMAIN storage_proof |->
        [res |-> nodes_to_node_indices(storage_proof[i].proof, map).res,
         key |-> storage_proof[i].key,
         proof |-> nodes_to_node_indices(storage_proof[i].proof, map).indices]]

\* One turn of the loop of get_slim_eip1186_proofs once the indices are
\* known: the account's indices come first, then those of its storage proofs.
SlimEip1186Proof(address, account_indices, slim_storage_proofs) ==
    [res |-> IF account_indices.res # "Ok" THEN account_indices.res
             ELSE FirstError(slim_storage_proofs),
     address |-> address,
     account_proof |-> account_indices.indices,
     storage_proofs |-> [i \in DOMAIN slim_storage_proofs |->
                            [key |-> slim_storage_proofs[i].key,
                             proof |-> slim_storage_proofs[i].proof]]]

\* The slim proofs of the responses, in the order proof_order the HashMap
\* is iterated in.
SlimProofsInOrder(node_map, proofs_in, proof_order) ==
    [i \in DOMAIN proof_order |->
        SlimEip1186Proof(proof_order[i],
            nodes_to_node_indices(proofs_in[proof_order[i]].account_proof, node_map.account),
            SlimStorageProofs(proofs_in[proof_order[i]].storage_proof, node_map.storage))]

\* The list get_slim_eip1186_proofs returns, or its first error.
SlimProofsResult(slim_proofs) ==
    [res |-> FirstError(slim_proofs),
     list |-> [i \in DOMAIN slim_proofs |->
                  [address |-> slim_proofs[i].address,
                   account_proof |-> slim_proofs[i].account_proof,
                   storage_proofs |-> slim_proofs[i].storage_proofs]]]

\* get_slim_eip1186_proofs: replace every node by its index.
get_slim_eip1186_proofs(node_map, proofs_in, proof_order) ==
    SlimProofsResult(SlimProofsInOrder(node_map, proofs_in, proof_order))

\* contracts_to_ssz and bytes_collection_to_ssz: every byte of every byte
\* string is pushed, in order.
bytes_collection_to_ssz(collection) ==
    [i \in DOMAIN collection |-> [j \in DOMAIN collection[i] |-> collection[i][j]]]

contracts_to_ssz(input) == bytes_collection_to_ssz(input)

\* What create returns once the slim proofs are made.
SlimBlockStateProof(slim_proofs, accessed_contracts, node_set) ==
    IF slim_proofs.res # "Ok"
    THEN [res |-> slim_proofs.res, slim_eip1186_proofs |-> <<>>, contracts |-> <<>>,
          account_nodes |-> <<>>, storage_nodes |-> <<>>]
    ELSE [res |-> "Ok",
          slim_eip1186_proofs |-> slim_proofs.list,
          contracts |-> contracts_to_ssz(accessed_contracts),
          account_nodes |-> bytes_collection_to_ssz(node_set.account),
          storage_nodes |-> bytes_collection_to_ssz(node_set.storage)]

\* SlimBlockStateProof::create, with node_set the Vecs the two HashSets were
\* collected into and proof_order the order the proofs are iterated in.
create(proofs_in, accessed_contracts, node_set, proof_order) ==
    SlimBlockStateProof(
        get_slim_eip1186_proofs(get_node_map(node_set), proofs_in, proof_order),
        accessed_contracts, node_set)

\* The components this specification leaves aside.
SlimOthers == <<trieVars, codecVars, evmVars, traceVars, restVars>>

SlimInit ==
    /\ block_proofs \in BlockProofsInputs
    /\ slim = [res |-> "none"]
    /\ data = <<>> /\ root = ZeroHash /\ world = <<>> /\ proofs = <<>>
    /\ leaves = <<>> /\ nMods = 0 /\ last = <<>>
    /\ CodecIdle /\ EvmIdle /\ TraceIdle /\ RestIdle

\* SlimBlockStateProof::create(block_proofs, accessed_contracts): the proofs
\* are moved into the call, which is made once.
Create ==
    /\ slim.res = "none"
    /\ \E accessed_contracts \in {<<>>} \cup {<<c>> : c \in ContractCodes} :
       \E account \in IntoVecs(get_trie_node_set(block_proofs).account) :
       \E storage \in IntoVecs(get_trie_node_set(block_proofs).storage) :
       \E proof_order \in Orders(DOMAIN block_proofs) :
          slim' = create(block_proofs, accessed_contracts,
                         TrieNodesSet(account, storage), proof_order)
    /\ UNCHANGED <<block_proofs, SlimOthers>>

SlimNext == Create

SpecSlim == SlimInit /\ [][SlimNext]_vars

(***************************************************************************)
(* RequiredBlockState::to_ssz_bytes and from_ssz_bytes                     *)
(* (crates/types/src/state.rs): the SimpleSerialize encoding the structs   *)
(* derive.  A fixed-size field is written in place; a variable-size field  *)
(* leaves a 4-byte little-endian offset in the fixed part and its bytes    *)
(* after it; a list of variable-size elements is its offsets and then its  *)
(* elements.  The parcels here are within every capacity limit.            *)
(***************************************************************************)

\* Largest number of elements of a list of a parcel.
MaxListLen == 2

\* Bytes of an offset, of a u16 index, and of the byte vectors of the schema.
BytesPerLengthOffset == 4
U16Bytes == 2
H160Bytes == 20
H256Bytes == 32
U64Bytes == 8

RECURSIVE LowBytesFirst(_, _)
LowBytesFirst(n, w) == IF w = 0 THEN <<>> ELSE <<n % 256>> \o LowBytesFirst(n \div 256, w - 1)

\* A mistaken LittleEndian: the most significant byte first.
BigEndian(n, w) == [i \in 1 .. w |-> LowBytesFirst(n, w)[w + 1 - i]]

\* The w bytes of n, least significant first.
LittleEndian(n, w) == LowBytesFirst(n, w)

RECURSIVE FromLittleEndian(_)
FromLittleEndian(b) == IF b = <<>> THEN 0 ELSE b[1] + 256 * FromLittleEndian(Tail(b))

RECURSIVE Flatten(_)
\* The byte strings of a list, one after the other.
Flatten(parts) == IF parts = <<>> THEN <<>> ELSE Head(parts) \o Flatten(Tail(parts))

\* The fixed part, the offsets of the variable parts, then the variable parts.
SerializeVariable(fixed, parts) ==
    fixed
    \o Flatten([i \in DOMAIN parts |->
                   LittleEndian(Len(fixed) + BytesPerLengthOffset * Len(parts)
                                + Len(Flatten(SubSeq(parts, 1, i - 1))),
                                BytesPerLengthOffset)])
    \o Flatten(parts)

\* The offset read at byte position at (counted from 0).
ReadOffset(b, at) == FromLittleEndian(SubSeq(b, at + 1, at + BytesPerLengthOffset))

\* The n offsets that follow the fixed part.
Offsets(b, fixed_len, n) ==
    [i \in 1 .. n |-> ReadOffset(b, fixed_len + BytesPerLengthOffset * (i - 1))]

\* The offsets start right after the fixed part, do not decrease and stay
\* within the bytes.
OffsetsOk(b, fixed_len, n, offs) ==
    /\ Len(b) >= fixed_len + BytesPerLengthOffset * n
    /\ n > 0 => offs[1] = fixed_len + BytesPerLengthOffset * n /\ offs[n] <= Len(b)
    /\ \A i \in 1 .. n - 1 : offs[i] <= offs[i + 1]

PartsAt(b, offs) ==
    [i \in DOMAIN offs |->
        SubSeq(b, offs[i] + 1, IF i = Len(offs) THEN Len(b) ELSE offs[i + 1])]

\* The n variable parts of bytes with a fixed part of fixed_len bytes.
DeserializeVariable(b, fixed_len, n) ==
    IF OffsetsOk(b, fixed_len, n, Offsets(b, fixed_len, n))
    THEN [ok |-> TRUE, parts |-> PartsAt(b, Offsets(b, fixed_len, n))]
    ELSE [ok |-> FALSE, parts |-> <<>>]

\* The elements of a list of variable-size elements: the first offset tells
\* their number.
DeserializeVariableList(b) ==
    IF b = <<>> THEN [ok |-> TRUE, parts |-> <<>>]
    ELSE IF Len(b) < BytesPerLengthOffset THEN [ok |-> FALSE, parts |-> <<>>]
    ELSE IF ReadOffset(b, 0) = 0 \/ ReadOffset(b, 0) % BytesPerLengthOffset # 0
         THEN [ok |-> FALSE, parts |-> <<>>]
         ELSE DeserializeVariable(b, 0, ReadOffset(b, 0) \div BytesPerLengthOffset)

Decoded(ok, val) == [ok |-> ok, val |-> val]

\* Every element was decoded: the list of the values; else the error.
DecodedList(ok, results) ==
    IF ok /\ \A i \in DOMAIN results : results[i].ok
    THEN Decoded(TRUE, [i \in DOMAIN results |-> results[i].val])
    ELSE Decoded(FALSE, <<>>)

\* NodeIndices = List<u16, MAX_NODES_PER_PROOF>
SerializeNodeIndices(indices) ==
    Flatten([i \in DOMAIN indices |-> LittleEndian(indices[i], U16Bytes)])

DeserializeNodeIndices(b) ==
    IF Len(b) % U16Bytes # 0 THEN Decoded(FALSE, <<>>)
    ELSE Decoded(TRUE, [i \in 1 .. Len(b) \div U16Bytes |->
                           FromLittleEndian(SubSeq(b, U16Bytes * (i - 1) + 1, U16Bytes * i))])

\* CompactStorageProof: key, value, proof
SerializeStorageProof(sp) ==
    SerializeVariable(sp.key \o sp.value, <<SerializeNodeIndices(sp.proof)>>)

StorageProofOf(b, proof) ==
    IF ~proof.ok THEN Decoded(FALSE, <<>>)
    ELSE Decoded(TRUE, [key |-> SubSeq(b, 1, H256Bytes),
                        value |-> SubSeq(b, H256Bytes + 1, 2 * H256Bytes),
                        proof |-> proof.val])

StorageProofParts(b, v) ==
    IF ~v.ok THEN Decoded(FALSE, <<>>)
    ELSE StorageProofOf(b, DeserializeNodeIndices(v.parts[1]))

DeserializeStorageProof(b) ==
    StorageProofParts(b, DeserializeVariable(b, 2 * H256Bytes, 1))

\* CompactStorageProofs = List<CompactStorageProof, ...>
SerializeStorageProofs(list) ==
    SerializeVariable(<<>>, [i \in DOMAIN list |-> SerializeStorageProof(list[i])])

StorageProofsOf(v) ==
    DecodedList(v.ok, [i \in DOMAIN v.parts |-> DeserializeStorageProof(v.parts[i])])

DeserializeStorageProofs(b) == StorageProofsOf(DeserializeVariableList(b))

\* Bytes of the fixed-size fields of a CompactEip1186Proof.
ProofFixedBytes == H160Bytes + H256Bytes + H256Bytes + U64Bytes + H256Bytes

\* CompactEip1186Proof
SerializeProof(pr) ==
    SerializeVariable(
        pr.address \o pr.balance \o pr.code_hash \o pr.nonce \o pr.storage_hash,
        <<SerializeNodeIndices(pr.account_proof), SerializeStorageProofs(pr.storage_proofs)>>)

ProofOf(b, account_proof, storage_proofs) ==
    IF ~account_proof.ok \/ ~storage_proofs.ok THEN Decoded(FALSE, <<>>)
    ELSE Decoded(TRUE,
            [address |-> SubSeq(b, 1, H160Bytes),
             balance |-> SubSeq(b, H160Bytes + 1, H160Bytes + H256Bytes),
             code_hash |-> SubSeq(b, H160Bytes + H256Bytes + 1, H160Bytes + 2 * H256Bytes),
             nonce |-> SubSeq(b, H160Bytes + 2 * H256Bytes + 1,
                              H160Bytes + 2 * H256Bytes + U64Bytes),
             storage_hash |-> SubSeq(b, H160Bytes + 2 * H256Bytes + U64Bytes + 1,
                                     ProofFixedBytes),
             account_proof |-> account_proof.val,
             storage_proofs |-> storage_proofs.val])

ProofParts(b, v) ==
    IF ~v.ok THEN Decoded(FALSE, <<>>)
    ELSE ProofOf(b, DeserializeNodeIndices(v.parts[1]), DeserializeStorageProofs(v.parts[2]))

DeserializeProof(b) == ProofParts(b, DeserializeVariable(b, ProofFixedBytes, 2))

\* CompactEip1186Proofs = List<CompactEip1186Proof, ...>
SerializeProofs(list) ==
    SerializeVariable(<<>>, [i \in DOMAIN list |-> SerializeProof(list[i])])

ProofsOf(v) == DecodedList(v.ok, [i \in DOMAIN v.parts |-> DeserializeProof(v.parts[i])])

DeserializeProofs(b) == ProofsOf(DeserializeVariableList(b))

\* Contracts, AccountNodes, StorageNodes: lists of byte lists
SerializeByteLists(list) == SerializeVariable(<<>>, list)

ByteListsOf(v) == Decoded(v.ok, v.parts)

DeserializeByteLists(b) == ByteListsOf(DeserializeVariableList(b))

\* BlockHashes = List<RecentBlockHash, 256>: elements of fixed size
SerializeBlockHashes(list) ==
    Flatten([i \in DOMAIN list |-> list[i].block_number \o list[i].block_hash])

DeserializeBlockHashes(b) ==
    IF Len(b) % (U64Bytes + H256Bytes) # 0 THEN Decoded(FALSE, <<>>)
    ELSE Decoded(TRUE,
            [i \in 1 .. Len(b) \div (U64Bytes + H256Bytes) |->
                [block_number |-> SubSeq(b, (U64Bytes + H256Bytes) * (i - 1) + 1,
                                         (U64Bytes + H256Bytes) * (i - 1) + U64Bytes),
                 block_hash |-> SubSeq(b, (U64Bytes + H256Bytes) * (i - 1) + U64Bytes + 1,
                                       (U64Bytes + H256Bytes) * i)]])

RequiredBlockState(compact_eip1186_proofs, contracts, account_nodes, storage_nodes, blockhashes) ==
    [compact_eip1186_proofs |-> compact_eip1186_proofs, contracts |-> contracts,
     account_nodes |-> account_nodes, storage_nodes |-> storage_nodes,
     blockhashes |-> blockhashes]

\* self.serialize(&mut buf)
Serialize(state) ==
    SerializeVariable(<<>>,
        <<SerializeProofs(state.compact_eip1186_proofs),
          SerializeByteLists(state.contracts),
          SerializeByteLists(state.account_nodes),
          SerializeByteLists(state.storage_nodes),
          SerializeBlockHashes(state.blockhashes)>>)

StateOf(f1, f2, f3, f4, f5) ==
    IF f1.ok /\ f2.ok /\ f3.ok /\ f4.ok /\ f5.ok
    THEN Decoded(TRUE, RequiredBlockState(f1.val, f2.val, f3.val, f4.val, f5.val))
    ELSE Decoded(FALSE, <<>>)

StateParts(v) ==
    IF ~v.ok THEN Decoded(FALSE, <<>>)
    ELSE StateOf(DeserializeProofs(v.parts[1]), DeserializeByteLists(v.parts[2]),
                 DeserializeByteLists(v.parts[3]), DeserializeByteLists(v.parts[4]),
                 DeserializeBlockHashes(v.parts[5]))

\* deserialize(&ssz_data)
Deserialize(b) == StateParts(DeserializeVariable(b, 0, 5))

to_ssz_bytes(state) == [res |-> "Ok", bytes |-> Serialize(state)]

FromDecoded(d) ==
    IF d.ok THEN [res |-> "Ok", parcel |-> d.val]
    ELSE [res |-> "DerializeError", parcel |-> <<>>]

from_ssz_bytes(ssz) == FromDecoded(Deserialize(ssz))

\* A byte vector of n bytes.
Fill(n, x) == [i \in 1 .. n |-> x]

\* The lists of at most MaxListLen elements of S.
ListsOf(S) == UNION {[1 .. k -> S] : k \in 0 .. MaxListLen}

\* The parcels: lists of indices with values above 255, storage proofs with
\* and without indices, byte lists that are empty, and every length of
\* every list up to MaxListLen.
IndexLists == {<<>>, <<258, 1>>}

CompactStorageProofs == ListsOf({[key |-> Fill(H256Bytes, 7), value |-> Fill(H256Bytes, 8),
                                  proof |-> <<513>>]})

CompactEip1186Proofs ==
    ListsOf({[address |-> Fill(H160Bytes, 1), balance |-> Fill(H256Bytes, 2),
              code_hash |-> Fill(H256Bytes, 3), nonce |-> LittleEndian(260, U64Bytes),
              storage_hash |-> Fill(H256Bytes, 5),
              account_proof |-> ap, storage_proofs |-> sps] :
             ap \in IndexLists, sps \in CompactStorageProofs})

Parcels ==
    {RequiredBlockState(prs, cs, an, sn, bh) :
        prs \in CompactEip1186Proofs,
        cs \in ListsOf({<<96, 0>>}),
        an \in ListsOf({<<>>, <<193>>}),
        sn \in ListsOf({<<194, 5>>}),
        bh \in ListsOf({[block_number |-> LittleEndian(17000000, U64Bytes),
                         block_hash |-> Fill(H256Bytes, 9)]})}

\* The components this specification leaves aside.
CodecOthers == <<trieVars, slimVars, evmVars, traceVars, restVars>>

CodecInit ==
    /\ parcel \in Parcels
    /\ ssz_data = [res |-> "none"]
    /\ decoded = [res |-> "none"]
    /\ data = <<>> /\ root = ZeroHash /\ world = <<>> /\ proofs = <<>>
    /\ leaves = <<>> /\ nMods = 0 /\ last = <<>>
    /\ SlimIdle /\ EvmIdle /\ TraceIdle /\ RestIdle

\* parcel.to_ssz_bytes(): the parcel is moved into the call.
ToSszBytes ==
    /\ ssz_data.res = "none"
    /\ ssz_data' = to_ssz_bytes(parcel)
    /\ UNCHANGED <<parcel, decoded, CodecOthers>>

\* RequiredBlockState::from_ssz_bytes(ssz_data)
FromSszBytes ==
    /\ ssz_data.res = "Ok" /\ decoded.res = "none"
    /\ decoded' = from_ssz_bytes(ssz_data.bytes)
    /\ UNCHANGED <<parcel, ssz_data, CodecOthers>>

CodecNext == ToSszBytes \/ FromSszBytes

SpecCodec == CodecInit /\ [][CodecNext]_vars

(***************************************************************************)
(* BlockEvm (crates/tracer/src/evm.rs): one EVM for a block, loaded with   *)
(* one transaction environment at a time.  What revm makes of a            *)
(* transaction is an attribute of the transaction.                         *)
(***************************************************************************)

\* Largest number of transactions of a block.
MaxTxs == 2

\* Largest number of calls made on one BlockEvm.
MaxEvmCalls == 4

\* Storage slots a transaction may write, all of one account.
Slots == {1, 2}
TheAccount == "A"

\* A transaction: env tells what add_transaction_environment meets (a
\* transaction it can load, one without gas_price, one without recipient,
\* one whose fees do not convert); revm tells what the EVM makes of it;
\* index is its transaction_index; slot is the storage slot it writes.
Transactions ==
    [env : {"Ok", "NoGasPrice", "NoRecipient", "Unconvertible"},
     revm : {"Ok", "InspectRefFails", "CommitFails"},
     index : {"Some", "None"},
     slot : Slots]

\* BlockEvm::init_from_db
init_from_db == [tx_env_status |-> "NotLoaded", tx |-> "default", committed |-> 0, traced |-> 0]

\* TxStatus::ready_to_execute, ready_to_set
ready_to_execute(status) == IF status = "Loaded" THEN "Ok" ELSE "TxNotSet"
ready_to_set(status) == IF status = "Loaded" THEN "TxAlreadySet" ELSE "Ok"

\* TxStatus::executed that forgets to unload.
executed_still_loaded(status) == status

\* TxStatus::executed and TxStatus::set, called once the check has passed.
executed(status) == "NotLoaded"
set(status) == "Loaded"

\* What a call on a BlockEvm leaves and returns; state is the
\* ResultAndState.state of an execution.
EvmReturn(evm, res, state) == [evm |-> evm, res |-> res, state |-> state]

\* add_transaction_environment(tx)
add_transaction_environment(evm, tx) ==
    IF ready_to_set(evm.tx_env_status) # "Ok"
    THEN EvmReturn(evm, ready_to_set(evm.tx_env_status), <<>>)
    ELSE CASE tx.env \in {"NoGasPrice", "NoRecipient"} -> EvmReturn(evm, "panic", <<>>)
           [] tx.env = "Unconvertible" -> EvmReturn(evm, "UtilsError", <<>>)
           [] OTHER -> EvmReturn([evm EXCEPT !.tx = tx,
                                             !.tx_env_status = set(evm.tx_env_status)],
                                 "Ok", <<>>)

\* The state changes of the loaded transaction: its slot of the account
\* takes the number of the transaction among those committed.
StateChanges(evm) ==
    [a \in {TheAccount} |-> [storage |-> [k \in {evm.tx.slot} |-> evm.committed + 1]]]

\* execute_with_inspector_eip3155 (inspector TRUE) and
\* execute_without_inspector (inspector FALSE): inspect_ref, then the
\* committing run, then the status.
execute(evm, inspector) ==
    IF ready_to_execute(evm.tx_env_status) # "Ok"
    THEN EvmReturn(evm, ready_to_execute(evm.tx_env_status), <<>>)
    ELSE IF evm.tx.revm # "Ok" THEN EvmReturn(evm, "RevmError", <<>>)
    ELSE EvmReturn([evm EXCEPT !.committed = evm.committed + 1,
                               !.traced = evm.traced + (IF inspector THEN 1 ELSE 0),
                               !.tx_env_status = executed(evm.tx_env_status)],
                   "Ok", StateChanges(evm))

\* The components this specification leaves aside.
EvmOthers == <<trieVars, slimVars, codecVars, traceVars, restVars>>

EvmInit ==
    /\ block_evm = init_from_db
    /\ evm_calls = [n |-> 0, loads |-> 0, executions |-> 0, op |-> "init", res |-> "Ok"]
    /\ data = <<>> /\ root = ZeroHash /\ world = <<>> /\ proofs = <<>>
    /\ leaves = <<>> /\ nMods = 0 /\ last = <<>>
    /\ SlimIdle /\ CodecIdle /\ TraceIdle /\ RestIdle

\* A todo!() reached: the process has stopped.
EvmRunning == evm_calls.res # "panic" /\ evm_calls.n < MaxEvmCalls

\* The BlockEvm and the record of its calls after a call that returned r.
EvmReturned(r, op, is_load) ==
    /\ block_evm' = r.evm
    /\ evm_calls' = [n |-> evm_calls.n + 1,
                     loads |-> evm_calls.loads + (IF is_load /\ r.res = "Ok" THEN 1 ELSE 0),
                     executions |-> evm_calls.executions
                                    + (IF ~is_load /\ r.res = "Ok" THEN 1 ELSE 0),
                     op |-> op, res |-> r.res]
    /\ UNCHANGED EvmOthers

AddTransactionEnvironment ==
    /\ EvmRunning
    /\ \E tx \in Transactions :
          EvmReturned(add_transaction_environment(block_evm, tx),
                      "add_transaction_environment", TRUE)

ExecuteWithInspectorEip3155 ==
    /\ EvmRunning
    /\ EvmReturned(execute(block_evm, TRUE), "execute_with_inspector_eip3155", FALSE)

ExecuteWithoutInspector ==
    /\ EvmRunning
    /\ EvmReturned(execute(block_evm, FALSE), "execute_without_inspector", FALSE)

EvmNext ==
    \/ AddTransactionEnvironment
    \/ ExecuteWithInspectorEip3155
    \/ ExecuteWithoutInspector

SpecEvm == EvmInit /\ [][EvmNext]_vars

(***************************************************************************)
(* BlockExecutor::trace_block and trace_transaction                        *)
(* (crates/tracer/src/trace.rs): every transaction of the block is loaded  *)
(* and executed on the executor's BlockEvm, the state changes are gathered *)
(* into one delta, and the root computed from it is compared with the      *)
(* header's.                                                               *)
(***************************************************************************)

HexDigits == <<"0", "1", "2", "3", "4", "5", "6", "7", "8", "9", "a", "b", "c", "d", "e", "f">>

\* hex_encode: "0x" and two digits for every byte.
hex_encode(bytes) ==
    <<"0", "x">> \o Flatten([i \in DOMAIN bytes |->
                                <<HexDigits[(bytes[i] \div 16) + 1], HexDigits[(bytes[i] % 16) + 1]>>])

\* post_block_state_delta.extend(post_tx.state): an account of the new
\* state changes takes the place of the account the delta held.
Extend(delta, state) ==
    [a \in DOMAIN delta \cup DOMAIN state |-> IF a \in DOMAIN state THEN state[a] ELSE delta[a]]

\* The root of the state that has the delta's values in the slots the delta
\* holds and zero elsewhere, one byte for every slot.
StateRoot(delta) ==
    [k \in 1 .. Cardinality(Slots) |->
        IF TheAccount \in DOMAIN delta /\ k \in DOMAIN delta[TheAccount].storage
        THEN delta[TheAccount].storage[k] ELSE 0]

\* block_proof_cache.state_root_post_block(delta)
state_root_post_block(block_proof_cache, delta) ==
    IF block_proof_cache # "Ok" THEN [res |-> "StateError", root |-> <<>>]
    ELSE [res |-> "Ok", root |-> StateRoot(delta)]

\* post_root_ok that compares nothing.
post_root_unchecked(header_root, computed_root) ==
    [res |-> "Ok", computed_root |-> "", header_root |-> ""]

\* post_root_ok(&expected_root, &computed_root)
post_root_ok(header_root, computed_root) ==
    IF computed_root # header_root
    THEN [res |-> "PostBlockStateRoot", computed_root |-> hex_encode(computed_root),
          header_root |-> hex_encode(header_root)]
    ELSE [res |-> "Ok", computed_root |-> "", header_root |-> ""]

\* What one turn of the loop over the transactions comes to.
TxStep(res, source, index, evm, state) ==
    [res |-> res, source |-> source, index |-> index, evm |-> evm, state |-> state]

\* The turn once the execute call has returned e.
TxExecuted(e, index) ==
    IF e.res # "Ok" THEN TxStep("TxExecutionError", e.res, index, e.evm, <<>>)
    ELSE TxStep("Ok", "none", index, e.evm, e.state)

\* The turn once add_transaction_environment has returned a.
TxLoaded(a, index, inspector) ==
    IF a.res = "panic" THEN TxStep("panic", "none", index, a.evm, <<>>)
    ELSE IF a.res # "Ok" THEN TxStep("TxEnvError", a.res, index, a.evm, <<>>)
    ELSE TxExecuted(execute(a.evm, inspector), index)

\* One turn of the loop: trace_transaction asks for the transaction's index
\* and inspects the target only; trace_block inspects every transaction.
TxTurn(evm, tx, index, op, target) ==
    IF op = "trace_transaction" /\ tx.index = "None"
    THEN TxStep("TxWithoutIndex", "none", index, evm, <<>>)
    ELSE TxLoaded(add_transaction_environment(evm, tx), index,
                  op = "trace_block" \/ index = target)

\* What trace_block or trace_transaction returns, with the BlockEvm and the
\* delta it had come to.
TraceReturn(op, res, index, source, computed_root, header_root, delta, evm) ==
    [op |-> op, res |-> res, index |-> index, source |-> source,
     computed_root |-> computed_root, header_root |-> header_root,
     delta |-> delta, evm |-> evm]

\* The end of the function once the root is computed.
RootChecked(op, delta, evm, computed, checked) ==
    IF computed.res # "Ok"
    THEN TraceReturn(op, computed.res, 0, "none", "", "", delta, evm)
    ELSE TraceReturn(op, checked.res, 0, "none", checked.computed_root, checked.header_root,
                     delta, evm)

\* The end of the function once the root is asked for.
RootComputed(ex, op, delta, evm, computed) ==
    RootChecked(op, delta, evm, computed,
                IF computed.res = "Ok" THEN post_root_ok(ex.block.state_root, computed.root)
                ELSE computed)

\* After the loop: the root of the delta against the header's state_root.
AfterLoop(ex, op, delta, evm) ==
    RootComputed(ex, op, delta, evm, state_root_post_block(ex.block_proof_cache, delta))

RECURSIVE TraceLoop(_, _, _, _, _, _)
\* The loop over the transactions: t is what the turn of transaction i came to.
TraceLoop(ex, op, target, i, delta, t) ==
    CASE t.res # "Ok" ->
            TraceReturn(op, t.res, t.index, t.source, "", "", delta, t.evm)
      [] t.res = "Ok" /\ i = Len(ex.block.transactions) ->
            AfterLoop(ex, op, Extend(delta, t.state), t.evm)
      [] OTHER ->
            TraceLoop(ex, op, target, i + 1, Extend(delta, t.state),
                      TxTurn(t.evm, ex.block.transactions[i + 1], i, op, target))

\* trace_block (op "trace_block") and trace_transaction(target) on a loaded
\* executor, whose BlockEvm is as init_from_db left it.
trace_transactions(ex, op, target) ==
    IF ex.block.transactions = <<>> THEN AfterLoop(ex, op, <<>>, init_from_db)
    ELSE TraceLoop(ex, op, target, 1, <<>>,
                   TxTurn(init_from_db, ex.block.transactions[1], 0, op, target))

\* The state roots of the block headers.
HeaderRoots == {<<1, 0>>, <<0, 2>>, <<1, 2>>}

\* The loaded executors.
Executors ==
    [block : [transactions : UNION {[1 .. k -> Transactions] : k \in 0 .. MaxTxs},
              state_root : HeaderRoots],
     block_proof_cache : {"Ok", "Fails"}]

\* The components this specification leaves aside.
TraceOthers == <<trieVars, slimVars, codecVars, evmVars, restVars>>

TraceInit ==
    /\ executor \in Executors
    /\ trace = [res |-> "none"]
    /\ data = <<>> /\ root = ZeroHash /\ world = <<>> /\ proofs = <<>>
    /\ leaves = <<>> /\ nMods = 0 /\ last = <<>>
    /\ SlimIdle /\ CodecIdle /\ EvmIdle /\ RestIdle

\* executor.trace_block(): the executor is moved into the call.
TraceBlock ==
    /\ trace.res = "none"
    /\ trace' = trace_transactions(executor, "trace_block", 0)
    /\ UNCHANGED <<executor, TraceOthers>>

\* executor.trace_transaction(target_tx_index)
TraceTransaction ==
    /\ trace.res = "none"
    /\ \E target \in 0 .. MaxTxs - 1 : trace' = trace_transactions(executor, "trace_transaction", target)
    /\ UNCHANGED <<executor, TraceOthers>>

TraceNext == TraceBlock \/ TraceTransaction

SpecTrace == TraceInit /\ [][TraceNext]_vars

(***************************************************************************)
(* verify_proof (crates/verify/src/eip1186.rs): one EIP-1186 response is   *)
(* checked against a state root, the account first, then each storage      *)
(* proof.  What SingleProofPath::verify finds for a proof (an inclusion,   *)
(* an exclusion, or an error) comes with the proof.                        *)
(***************************************************************************)

\* Largest number of storage proofs of the response given to verify_proof.
MaxVerifiedProofs == 2

\* Largest storage value (a U256 in the program).
MaxValue == 2

U256Values == 0 .. MaxValue

\* Account::default(): nonce 0, balance 0, all-zero storage and code hash.
AccountDefault == [nonce |-> 0, balance |-> 0, storage_hash |-> 0, code_hash |-> 0]

\* The claimed accounts: each field is its default (0) or not.
Accounts == [nonce : {0, 1}, balance : {0, 1}, storage_hash : {0, 1}, code_hash : {0, 1}]

\* Account::is_empty
is_empty(account) == account = AccountDefault

\* What SingleProofPath::verify returns.
Verifications == {"Inclusion", "Exclusion", "ProofError"}

\* The responses: the claimed account, its storage proofs with their claimed
\* values, and what each proof verifies as.
Responses ==
    [account : Accounts,
     account_verifies : Verifications,
     storage_proof : UNION {[1 .. n -> [value : U256Values, verifies : Verifications]] :
                            n \in 0 .. MaxVerifiedProofs}]

\* verify_account_component: an inclusion proof needs a claimed account
\* other than the default one, an exclusion proof the default one.
verify_account_component(claimed_account, verifies) ==
    CASE verifies = "ProofError" -> "ProofError"
      [] verifies = "Inclusion" ->
            IF claimed_account = AccountDefault THEN "InclusionProofForEmptyAccount" ELSE "Ok"
      [] OTHER ->
            IF is_empty(claimed_account) THEN "Ok" ELSE "ExclusionProofForNonEmptyAccount"

\* verify_account_storage_component that lets an inclusion proof pass for
\* the value zero.
verify_storage_component_any_inclusion(storage_proof) ==
    CASE storage_proof.verifies = "ProofError" -> "ProofError"
      [] storage_proof.verifies = "Inclusion" -> "Ok"
      [] OTHER ->
            IF storage_proof.value = 0 THEN "Ok" ELSE "ExclusionProofForNonZeroValue"

\* verify_account_storage_component: an inclusion proof needs a claimed
\* value other than zero, an exclusion proof the value zero.
verify_account_storage_component(storage_proof) ==
    CASE storage_proof.verifies = "ProofError" -> "ProofError"
      [] storage_proof.verifies = "Inclusion" ->
            IF storage_proof.value = 0 THEN "InclusionProofForZeroValue" ELSE "Ok"
      [] OTHER ->
            IF storage_proof.value = 0 THEN "Ok" ELSE "ExclusionProofForNonZeroValue"

\* Result<(), VerifyProofError>: the error, its source and, for a storage
\* error, the position of the storage proof.
VerifyReturn(res, source, storage_index) ==
    [res |-> res, source |-> source, storage_index |-> storage_index]

RECURSIVE VerifyStorageProofs(_, _)
\* The loop of verify_proof over the storage proofs, from position i on: the
\* first storage proof that is refused ends it.
VerifyStorageProofs(storage_proof, i) ==
    IF i > Len(storage_proof) THEN VerifyReturn("Ok", "none", 0)
    ELSE IF verify_account_storage_component(storage_proof[i]) # "Ok"
         THEN VerifyReturn("StorageError", verify_account_storage_component(storage_proof[i]), i)
         ELSE VerifyStorageProofs(storage_proof, i + 1)

\* verify_proof once the account component has answered.
VerifyAfterAccount(proof, account_res) ==
    IF account_res # "Ok" THEN VerifyReturn("AccountError", account_res, 0)
    ELSE VerifyStorageProofs(proof.storage_proof, 1)

\* verify_proof: the account, then the storage proofs in their order.
verify_proof(proof) ==
    VerifyAfterAccount(proof, verify_account_component(proof.account, proof.account_verifies))

\* The components this specification leaves aside.
VerifyOthers == <<trieVars, slimVars, codecVars, evmVars, traceVars, oracleVars, viewer>>

VerifyInit ==
    /\ response \in Responses
    /\ verified = [res |-> "none"]
    /\ data = <<>> /\ root = ZeroHash /\ world = <<>> /\ proofs = <<>>
    /\ leaves = <<>> /\ nMods = 0 /\ last = <<>>
    /\ SlimIdle /\ CodecIdle /\ EvmIdle /\ TraceIdle /\ OracleIdle /\ ViewIdle

\* verify_proof(block_state_root, &response)
VerifyProof ==
    /\ verified' = verify_proof(response)
    /\ UNCHANGED <<response, VerifyOthers>>

VerifyNext == VerifyProof

SpecVerify == VerifyInit /\ [][VerifyNext]_vars

(***************************************************************************)
(* oracle_from_simulated_state_update (crates/inventory/src/oracle.rs):    *)
(* the storage keys a block creates or destroys are found by comparing the *)
(* pre-state and post-state proofs, sorted by key and replayed on the      *)
(* pre-state multiproof; the updates that ask for the oracle become tasks. *)
(* What EIP1186MultiProof::from_separate and update_storage_proof answer   *)
(* is chosen freely; the post-state proofs are valid, as the function      *)
(* expects of proofs cached from the RPC.                                  *)
(***************************************************************************)

\* Largest storage key of the post-state proofs.
MaxKey == 2

\* Largest storage value of the pre-state proofs.
MaxPreValue == 1

StorageKeys == 1 .. MaxKey

\* A storage key no post-state proof is for.
OtherKey == 0

\* Vec<StorageProof> of a post-state response: key and value, a key once.
PostStorageProofs ==
    {sp \in UNION {[1 .. n -> [key : StorageKeys, value : U256Values]] : n \in 0 .. MaxKey} :
        \A i, j \in DOMAIN sp : sp[i].key = sp[j].key => i = j}

\* The storage proofs a pre-state response may have for those of the
\* post-state: for each key its value before the block, or no proof of it.
PreStorageProofs(post_sp) ==
    {sp \in [DOMAIN post_sp -> [key : StorageKeys \cup {OtherKey}, value : 0 .. MaxPreValue]] :
        \A i \in DOMAIN sp :
            \/ sp[i].key = post_sp[i].key
            \/ sp[i].key = OtherKey /\ sp[i].value = 0}

\* BlockProofs.proofs of the post-state, by address.
PostProofs == UNION {[as -> PostStorageProofs] : as \in SUBSET Addresses}

\* BlockProofs.proofs of the pre-state for a post-state: some of its addresses.
PreProofs(post) ==
    UNION {{pre \in [as -> UNION {PreStorageProofs(post[a]) : a \in as}] :
               \A a \in as : pre[a] \in PreStorageProofs(post[a])} :
           as \in SUBSET DOMAIN post}

\* storage_created_or_destroyed that tells any change of the value.
storage_changed(val_pre, val_post) == val_pre # val_post

\* storage_created_or_destroyed
storage_created_or_destroyed(val_pre, val_post) ==
    LET e_to_i == val_pre = 0 /\ ~(val_post = 0)
        i_to_e == ~(val_pre = 0) /\ val_post = 0
    IN  e_to_i \/ i_to_e

InterestingUpdate(address, key, value) == [address |-> address, key |-> key, value |-> value]

RECURSIVE PostEntries(_, _)
\* The storage proofs of the post-state in the order the two loops meet
\* them: the addresses in the order the HashMap is iterated in, the storage
\* proofs of an address in the order of its Vec.
PostEntries(post, order) ==
    IF order = <<>> THEN <<>>
    ELSE [i \in DOMAIN post[Head(order)] |->
             InterestingUpdate(Head(order), post[Head(order)][i].key, post[Head(order)][i].value)]
         \o PostEntries(post, Tail(order))

\* acc_proof_pre.storage_proof.iter().find(|x| x.key == key)
FindKey(storage_proof, key) ==
    IF \E i \in DOMAIN storage_proof : storage_proof[i].key = key
    THEN [found |-> TRUE,
          value |-> storage_proof[CHOOSE i \in DOMAIN storage_proof :
                                     /\ storage_proof[i].key = key
                                     /\ \A j \in 1 .. i - 1 : storage_proof[j].key # key].value]
    ELSE [found |-> FALSE, value |-> 0]

\* One turn of the detecting loop: an error, or whether the entry is pushed.
Detected(pre, entry) ==
    IF entry.address \notin DOMAIN pre THEN "NoPreStateAddress"
    ELSE IF ~FindKey(pre[entry.address], entry.key).found THEN "NoPostStateKey"
    ELSE IF storage_created_or_destroyed(FindKey(pre[entry.address], entry.key).value, entry.value)
         THEN "push"
         ELSE "continue"

RECURSIVE Detect(_, _, _, _)
\* The detecting loop from entry i on, with the updates pushed so far.
Detect(pre, entries, i, updates) ==
    IF i > Len(entries) THEN [res |-> "Ok", updates |-> updates]
    ELSE IF Detected(pre, entries[i]) \in {"NoPreStateAddress", "NoPostStateKey"}
         THEN [res |-> Detected(pre, entries[i]), updates |-> updates]
         ELSE Detect(pre, entries, i + 1,
                     IF Detected(pre, entries[i]) = "push"
                     THEN Append(updates, entries[i]) ELSE updates)

RECURSIVE InsertByKey(_, _)
\* x put into the sorted list after every element whose key is not larger.
InsertByKey(sorted, x) ==
    IF sorted = <<>> THEN <<x>>
    ELSE IF Head(sorted).key <= x.key THEN <<Head(sorted)>> \o InsertByKey(Tail(sorted), x)
    ELSE <<x>> \o sorted

\* sort_by_key that leaves the updates in the order they were pushed in.
unsorted(updates) == updates

RECURSIVE sort_by_key(_)
\* updates.sort_by_key(|x| x.key): a stable sort, updates of equal key keep
\* the order they were pushed in.
sort_by_key(updates) ==
    IF updates = <<>> THEN <<>>
    ELSE InsertByKey(sort_by_key(SubSeq(updates, 1, Len(updates) - 1)), updates[Len(updates)])

\* What update_storage_proof answers for an update.
ProofOutcomes == {"Root", "IndexForOracle", "MultiProofError"}

\* OracleTask for an update that asked for the oracle.
OracleTask(update) ==
    [address |-> update.address, key |-> update.key,
     purpose |-> IF update.value = 0 THEN "ForExclusion" ELSE "ForInclusion"]

\* What the function has done and returned: the sorted updates, the updates
\* replayed on the pre-state multiproof, the tasks and the oracle's entries.
Simulated(res, updates, replayed, tasks) ==
    [res |-> res, updates |-> updates, replayed |-> replayed, tasks |-> tasks,
     oracle |-> IF res = "Ok" THEN {<<tasks[i].address, tasks[i].key>> : i \in DOMAIN tasks}
                ELSE {}]

RECURSIVE Replay(_, _, _, _)
\* The loop over the sorted updates from update i on: each is replayed with
\* update_storage_proof, whose answer outcomes[i] makes a task, or not, or
\* ends the function.
Replay(updates, outcomes, i, tasks) ==
    IF i > Len(updates) THEN Simulated("Ok", updates, updates, tasks)
    ELSE IF outcomes[i] = "MultiProofError"
         THEN Simulated("MultiProofError", updates, SubSeq(updates, 1, i), tasks)
         ELSE Replay(updates, outcomes, i + 1,
                     IF outcomes[i] = "IndexForOracle"
                     THEN Append(tasks, OracleTask(updates[i])) ELSE tasks)

\* The function once the detecting loop has ended.
AfterDetect(detected, from_separate, outcomes) ==
    IF detected.res # "Ok" THEN Simulated(detected.res, <<>>, <<>>, <<>>)
    ELSE IF from_separate # "Ok"
         THEN Simulated(from_separate, sort_by_key(detected.updates), <<>>, <<>>)
         ELSE Replay(sort_by_key(detected.updates), outcomes, 1, <<>>)

\* The components this specification leaves aside.
OracleOthers == <<trieVars, slimVars, codecVars, evmVars, traceVars, verifyVars, viewer>>

OracleInit ==
    /\ \E post \in PostProofs : \E pre \in PreProofs(post) :
          block_states = [pre |-> pre, post |-> post]
    /\ simulated = [res |-> "none"]
    /\ data = <<>> /\ root = ZeroHash /\ world = <<>> /\ proofs = <<>>
    /\ leaves = <<>> /\ nMods = 0 /\ last = <<>>
    /\ SlimIdle /\ CodecIdle /\ EvmIdle /\ TraceIdle /\ VerifyIdle /\ ViewIdle

\* What the function does once the detecting loop has ended, for every
\* answer from_separate and update_storage_proof may give.
SimulateDetected(detected) ==
    \E from_separate \in {"Ok", "MultiProofError"} :
    \E outcomes \in [1 .. Len(detected.updates) -> ProofOutcomes] :
       simulated' = AfterDetect(detected, from_separate, outcomes)

\* oracle_from_simulated_state_update(pre, post): the proofs are moved into
\* the call, which is made once.
OracleFromSimulatedStateUpdate ==
    /\ simulated.res = "none"
    /\ \E order \in Orders(DOMAIN block_states.post) :
          SimulateDetected(Detect(block_states.pre, PostEntries(block_states.post, order),
                                  1, <<>>))
    /\ UNCHANGED <<block_states, OracleOthers>>

OracleNext == OracleFromSimulatedStateUpdate

SpecOracle == OracleInit /\ [][OracleNext]_vars

(***************************************************************************)
(* MultiProof::view (crates/multiproof/src/proof.rs): one path is followed *)
(* from the root and the nodes met are gathered.  The loop has no bound of *)
(* its own; the model stops following it after MaxViewTurns turns.         *)
(***************************************************************************)

\* Turns of view's loop followed before the call is given up as running on.
MaxViewTurns == 8

\* What view returned for path, or "running" for a call that has not
\* returned, with the nodes pushed on visited_nodes.
ViewReturn(path, res, visited_nodes) ==
    [path |-> path, res |-> res, visited_nodes |-> visited_nodes]

RECURSIVE ViewLoop(_, _, _, _, _)

\* The Extension arm of view's match, by the nature m of the extension's
\* path: SubPathDiverges is `continue`, the next turn of the loop with
\* next_node_hash and the cursor as they are.
ViewExtension(st, path, next_node_hash, vi, next_node, m, visited_nodes) ==
    CASE m.nature = "PathError" -> ViewReturn(path, "PathError", visited_nodes)
      [] m.nature = "SubPathMatches" ->
            ViewLoop(st, path, next_node[2],
                     vi + Len(prefixed_bytes_to_nibbles(next_node[1])), visited_nodes)
      [] m.nature = "SubPathDiverges" -> ViewLoop(st, path, next_node_hash, vi, visited_nodes)
      [] OTHER -> ViewReturn(path, "Ok", visited_nodes)

\* The match on NodeKind::deduce(&next_node) in view.
ViewOfKind(st, path, next_node_hash, vi, next_node, kind, visited_nodes) ==
    CASE kind = "Branch" ->
            IF vi >= PathLen THEN ViewReturn(path, "PathError", visited_nodes)
            ELSE IF next_node[path[vi + 1] + 1] = <<>> THEN ViewReturn(path, "Ok", visited_nodes)
            ELSE ViewLoop(st, path, next_node[path[vi + 1] + 1], vi + 1, visited_nodes)
      [] kind = "Extension" ->
            ViewExtension(st, path, next_node_hash, vi, next_node,
                          match_or_mismatch(path, vi, next_node[1]), visited_nodes)
      [] kind = "Leaf" -> ViewReturn(path, "Ok", visited_nodes)
      [] OTHER -> ViewReturn(path, kind, visited_nodes)

\* view's loop: the node at next_node_hash is fetched, pushed on
\* visited_nodes and matched on its kind.
ViewLoop(st, path, next_node_hash, vi, visited_nodes) ==
    IF Len(visited_nodes) >= MaxViewTurns THEN ViewReturn(path, "running", visited_nodes)
    ELSE IF next_node_hash \notin DOMAIN st.data
    THEN ViewReturn(path, "NoNodeForHash", visited_nodes)
    ELSE ViewOfKind(st, path, next_node_hash, vi, DecodeList(st.data[next_node_hash]),
                    NodeKindDeduce(DecodeList(st.data[next_node_hash])),
                    Append(visited_nodes, st.data[next_node_hash]))

\* view(path) on the store st = [data, root].
view(st, path) == ViewLoop(st, path, st.root, 0, <<>>)

ViewOthers == <<trieVars, slimVars, codecVars, evmVars, traceVars, verifyVars, oracleVars>>

\* view(p) on the store.
View ==
    /\ \E p \in Keys : viewer' = view(Store, p)
    /\ UNCHANGED ViewOthers

\* A store is fed the pre-state proofs and viewed.
ViewNext ==
    \/ InsertProof
    \/ View

SpecView == Init /\ [][ViewNext]_vars

(***************************************************************************)
(* Properties                                                              *)
(***************************************************************************)

\* The store a call returned.
After(r) == [data |-> r.data, root |-> r.root]

\* The values a call at path p is given.
AllValues(p) == Values \cup {SeedValue(p)}

\* The store is hydrated from input proofs alone and holds every node of
\* the input proof of path p.
HoldsProof(p) ==
    /\ nMods = 0
    /\ \A i \in 1 .. Len(proofs[p]) : Keccak(proofs[p][i]) \in DOMAIN data

\* The walk along p reaches a terminus: every node on the way is held.
Resolves(st, p) == traverse(st, p, VerifyExclusion).res \in {"Ok", "ExclusionRequired"}

\* C1 (hash integrity): in every reachable state every entry h -> bytes of
\* the store satisfies h = keccak256(bytes).
C1_HashIntegrity == \A h \in DOMAIN data : h = Keccak(data[h])

\* C1 witness: a Modify at a diverging extension has returned Ok, so that
\* insert_proof, add_branch_for_new_leaf and update_node_with_child_hash
\* have all written entries of the store.
C1_Witness ==
    /\ last.op = "Modify" /\ last.res = "Ok" /\ last.term = "ExtensionExclusion"
    /\ ~last.empty
    /\ root # RefRoot(world)
    /\ Cardinality(DOMAIN data) >= 4

\* C2 (root reachability): on a store hydrated from valid input proofs, for
\* every path p whose proof is loaded and every value v,
\* traverse(p, VerifyInclusion(v)) returns Ok if and only if the trie the
\* proofs are taken from holds a leaf at p with value v; and for a path
\* whose proof is not loaded it never returns Ok unless the trie holds that leaf.
C2_RootReachability ==
    \A p \in Keys : \A v \in AllValues(p) :
        LET ok   == traverse(Store, p, VerifyInclusion(v)).res = "Ok"
            held == p \in DOMAIN world /\ world[p] = v
        IN  /\ HoldsProof(p) => (ok <=> held)
            /\ nMods = 0 /\ ok => held

\* C2 witness: VerifyInclusion has returned Ok on a hydrated store that also
\* holds the proof of a path the trie has no leaf at.
C2_Witness ==
    /\ last.op = "VerifyInclusion" /\ last.res = "Ok" /\ nMods = 0
    /\ \E p \in Keys \ DOMAIN world : HoldsProof(p)

\* C3 (inclusion/exclusion duality): for every path p the store resolves
\* (every node on its way is held), exactly one of
\* traverse(p, VerifyInclusion(v)) for some v and traverse(p, VerifyExclusion)
\* returns Ok.
C3_Duality ==
    \A p \in Keys :
        Running /\ Resolves(Store, p) =>
            ((\E v \in AllValues(p) : traverse(Store, p, VerifyInclusion(v)).res = "Ok")
                 <=> traverse(Store, p, VerifyExclusion).res # "Ok")

\* C3 witness: VerifyExclusion has returned Ok at a diverging leaf while the
\* store also holds an included path.
C3_Witness ==
    /\ last.op = "VerifyExclusion" /\ last.res = "Ok" /\ last.term = "LeafExclusion"
    /\ \E p \in DOMAIN world : traverse(Store, p, VerifyInclusion(world[p])).res = "Ok"

\* The terminus the walk along p ends at ("none" when it ends in an error).
TerminusOf(st, p) == traverse(st, p, VerifyExclusion).term

\* C4 (Modify/Verify round-trip, as the code has it): for every path p the
\* store resolves and every value v that is not an empty value handed to an
\* exclusion terminus, traverse(p, Modify(v)) returns Ok and
\* traverse(p, VerifyInclusion(v)) on the store it leaves returns Ok.
C4_ModifyVerifyRoundTrip ==
    \A p \in Keys : \A v \in Values :
        LET m == traverse(Store, p, Modify(v))
        IN  /\ Running
            /\ Resolves(Store, p)
            /\ ~(is_empty_value(v) /\ TerminusOf(Store, p) \in ExclusionTermini)
            => /\ m.res = "Ok"
               /\ traverse(After(m), p, VerifyInclusion(v)).res = "Ok"

\* C4 as stated: for every path p the store resolves and every value v,
\* traverse(p, Modify(v)) followed by traverse(p, VerifyInclusion(v)) succeeds.
C4_AsStated ==
    \A p \in Keys : \A v \in Values :
        LET m == traverse(Store, p, Modify(v))
        IN  Running /\ Resolves(Store, p)
            => /\ m.res = "Ok"
               /\ traverse(After(m), p, VerifyInclusion(v)).res = "Ok"

\* C4 witness: a Modify with a non-empty value has returned Ok at a diverging
\* leaf, and a path the pre-state has no leaf at now verifies as included.
C4_Witness ==
    /\ last.op = "Modify" /\ last.res = "Ok" /\ last.term = "LeafExclusion" /\ ~last.empty
    /\ \E p \in Keys \ DOMAIN world : \E v \in NonEmptyValues :
          traverse(Store, p, VerifyInclusion(v)).res = "Ok"

\* C5 (reference-trie equivalence): after a successful traverse(p, Modify(v))
\* with a non-empty value on a store hydrated from valid proofs, the
\* store's root equals the root of the reference trie built from the leaves
\* asked for.
C5_ReferenceTrie ==
    last.op = "Modify" /\ last.res = "Ok" /\ ~last.empty => root = RefRoot(leaves)

\* C6 (root mismatch): on a store whose root is not the all-zero hash,
\* insert_proof with a proof whose first node does not hash to the root
\* returns ProofRootMismatch and leaves data and root as they are.
C6_ProofRootMismatch ==
    \A k \in Keys :
        LET r == insert_proof(Store, proofs[k])
        IN  root # ZeroHash /\ Keccak(proofs[k][1]) # root
            => r.res = "ProofRootMismatch" /\ r.data = data /\ r.root = root

\* C6 witness: insert_proof has returned ProofRootMismatch on a store that
\* holds nodes, none of them a node of that proof's root.
C6_Witness ==
    /\ last.op = "InsertProof" /\ last.res = "ProofRootMismatch"
    /\ DOMAIN data # {}
    /\ RefRoot(world) \notin DOMAIN data

\* C7 (Modify-to-empty is a no-op): traverse(p, Modify(v)) with v an empty
\* value (RLP of U256 zero, RLP of the default account) and p ending at an
\* exclusion terminus returns Ok and leaves root and data as they are.
C7_ModifyToEmptyNoOp ==
    \A p \in Keys : \A v \in EmptyValues :
        LET m == traverse(Store, p, Modify(v))
        IN  m.term \in ExclusionTermini
            => m.res = "Ok" /\ m.data = data /\ m.root = root

\* C7 witness: a Modify with an empty value has returned Ok at an exclusion
\* terminus of a store that holds nodes.
C7_Witness ==
    /\ last.op = "Modify" /\ last.empty /\ last.res = "Ok"
    /\ last.term \in ExclusionTermini
    /\ DOMAIN data # {}

\* C8 (Remove idempotence): traverse(p, Remove) with p ending at an
\* exclusion terminus returns Ok and leaves root and data as they are.
C8_RemoveExcludedNoOp ==
    \A p \in Keys :
        LET m == traverse(Store, p, RemoveIntent)
        IN  m.term \in ExclusionTermini
            => m.res = "Ok" /\ m.data = data /\ m.root = root

\* C8 witness: a Remove has returned Ok at an exclusion terminus.
C8_Witness ==
    /\ last.op = "Remove" /\ last.res = "Ok" /\ last.term \in ExclusionTermini
    /\ DOMAIN data # {}

\* C9 (Modify to empty at an included leaf removes it): for a path p whose
\* leaf is included, traverse(p, Modify(rlp(0))) returns Ok, the root
\* changes, and traverse(p, VerifyExclusion) on the store it leaves
\* returns Ok.
C9_ModifyToEmptyRemoves ==
    \A p \in Keys :
        LET m == traverse(Store, p, Modify(ZeroU256Rlp))
        IN  Running /\ m.term = "LeafInclusion"
            => /\ m.res = "Ok"
               /\ m.root # root
               /\ traverse(After(m), p, VerifyExclusion).res = "Ok"

\* C10 (value round-trip): for a path p included with a non-empty value v
\* and a non-empty value v2, traverse(p, Modify(v2)) followed by
\* traverse(p, Modify(v)) both return Ok and restore the root.
C10_ValueRoundTrip ==
    \A p \in Keys : \A v \in AllValues(p) \ EmptyValues : \A v2 \in NonEmptyValues :
        LET m1 == traverse(Store, p, Modify(v2))
            m2 == traverse(After(m1), p, Modify(v))
        IN  Running /\ traverse(Store, p, VerifyInclusion(v)).res = "Ok"
            => m1.res = "Ok" /\ m2.res = "Ok" /\ m2.root = root

\* C10 witness: a Modify with a non-empty value has returned Ok at an
\* included leaf and changed the root, and a Modify with the leaf's former
\* value brings the former root back.
C10_Witness ==
    /\ last.op = "Modify" /\ last.res = "Ok" /\ last.term = "LeafInclusion" /\ ~last.empty
    /\ root # RefRoot(world)
    /\ \E p \in DOMAIN world : traverse(Store, p, Modify(world[p])).root = RefRoot(world)

RECURSIVE TrailFrom(_, _, _, _)
\* The visited nodes traverse's loop has collected when it reaches a
\* terminus (none when it ends in an error).
TrailFrom(st, path, visited_nodes, t) ==
    CASE t.act = "stop" -> <<>>
      [] t.act = "descend" ->
            TrailFrom(st, path, Append(visited_nodes, t.visit),
                      TurnAt(st, path, t.next_node_hash, t.next_vi))
      [] OTHER -> Append(visited_nodes, t.visit)

VisitedTrail(st, p) == TrailFrom(st, p, <<>>, TurnAt(st, p, st.root, 0))

\* The hashes of the other children of the branch right above the terminal
\* node of the walk along p (none when that node has no branch above it).
Siblings(st, p) ==
    LET tr == VisitedTrail(st, p)
    IN  IF Len(tr) < 2 THEN {}
        ELSE IF tr[Len(tr) - 1].kind # "Branch" THEN {}
        ELSE LET node == DecodeList(st.data[tr[Len(tr) - 1].node_hash])
             IN  {node[i] : i \in OtherChildren(node, tr[Len(tr) - 1].item_index)}

\* The value of the leaf the walk along p ends at.
LeafValueAt(st, p) ==
    LET tr == VisitedTrail(st, p)
    IN  DecodeList(st.data[tr[Len(tr)].node_hash])[2]

\* C11 (deletion round-trip): for a path p included with value v, with every
\* sibling of the leaf held in the store, traverse(p, Remove) followed by
\* traverse(p, Modify(v)) both return Ok and restore the root.
C11_DeletionRoundTrip ==
    \A p \in Keys : \A v \in AllValues(p) :
        LET r == traverse(Store, p, RemoveIntent)
            m == traverse(After(r), p, Modify(v))
        IN  /\ Running
            /\ traverse(Store, p, VerifyInclusion(v)).res = "Ok"
            /\ Siblings(Store, p) \subseteq DOMAIN data
            => r.res = "Ok" /\ m.res = "Ok" /\ m.root = root

\* C12 (local deletion): traverse(p, Remove) at an included leaf whose parent
\* branch keeps at least two other children returns Ok with a new root, and
\* traverse(p, VerifyExclusion) on the store it leaves returns Ok.
C12_LocalDeletion ==
    \A p \in Keys :
        LET r == traverse(Store, p, RemoveIntent)
        IN  /\ Running
            /\ TerminusOf(Store, p) = "LeafInclusion"
            /\ Cardinality(Siblings(Store, p)) >= 2
            => /\ r.res = "Ok"
               /\ r.root # root
               /\ traverse(After(r), p, VerifyExclusion).res = "Ok"

\* C13 (collapse with the sibling supplied): traverse(p, Remove) that deletes
\* one of exactly two children of a branch, with the bytes of the surviving
\* sibling supplied to the store, returns Ok and yields a new root.
C13_CollapseWithSibling ==
    \A p \in Keys :
        LET r == traverse(Store, p, RemoveIntent)
        IN  /\ Running
            /\ TerminusOf(Store, p) = "LeafInclusion"
            /\ Cardinality(Siblings(Store, p)) = 1
            /\ Siblings(Store, p) \subseteq DOMAIN data
            => r.res = "Ok" /\ r.root # root

\* C14 (errors are values): no call of traverse aborts the process; every
\* call returns Ok or an error.
C14_NoAbort == last.res # "panic"

\* C15 (verify outcome kinds): traverse(p, VerifyInclusion(v)) at an exclusion
\* terminus returns InclusionRequired; traverse(p, VerifyExclusion) at a fully
\* matching leaf returns ExclusionRequired; traverse(p, VerifyInclusion(v)) at
\* a fully matching leaf whose value differs from v returns IncorrectLeafData.
C15_VerifyOutcomeKinds ==
    \A p \in Keys : \A v \in AllValues(p) :
        LET i == traverse(Store, p, VerifyInclusion(v))
            e == traverse(Store, p, VerifyExclusion)
        IN  /\ i.term \in ExclusionTermini => i.res = "InclusionRequired"
            /\ e.term = "LeafInclusion" => e.res = "ExclusionRequired"
            /\ i.term = "LeafInclusion" /\ LeafValueAt(Store, p) # v
               => i.res = "IncorrectLeafData"

\* C15 witness: VerifyInclusion has returned IncorrectLeafData at a fully
\* matching leaf, on a store where another path ends at an exclusion
\* terminus and answers InclusionRequired.
C15_Witness ==
    /\ last.op = "VerifyInclusion" /\ last.res = "IncorrectLeafData"
    /\ last.term = "LeafInclusion"
    /\ \E p \in Keys : traverse(Store, p, VerifyInclusion(ValueA)).res = "InclusionRequired"
    /\ \E p \in Keys : traverse(Store, p, VerifyExclusion).res = "ExclusionRequired"

\* The nodes the indices of a slim proof stand for.
Resolved(indices, nodes) == [i \in DOMAIN indices |-> nodes[indices[i] + 1]]

\* C17 (indices always resolve): in a parcel built by create every input
\* proof has one slim proof, and replacing each index of its account proof
\* and of each of its storage proofs by the entry at that index of
\* account_nodes (respectively storage_nodes) gives the input proof's node
\* list; create never returns NoIndexForNode.
C17_IndicesResolve ==
    /\ slim.res # "NoIndexForNode"
    /\ slim.res = "Ok" =>
        /\ {slim.slim_eip1186_proofs[i].address : i \in DOMAIN slim.slim_eip1186_proofs}
               = DOMAIN block_proofs
        /\ Len(slim.slim_eip1186_proofs) = Cardinality(DOMAIN block_proofs)
        /\ \A i \in DOMAIN slim.slim_eip1186_proofs :
              LET sp == slim.slim_eip1186_proofs[i]
                  in == block_proofs[sp.address]
              IN  /\ \A x \in Range(sp.account_proof) : x + 1 \in DOMAIN slim.account_nodes
                  /\ Resolved(sp.account_proof, slim.account_nodes) = in.account_proof
                  /\ DOMAIN sp.storage_proofs = DOMAIN in.storage_proof
                  /\ \A k \in DOMAIN sp.storage_proofs :
                        /\ sp.storage_proofs[k].key = in.storage_proof[k].key
                        /\ \A x \in Range(sp.storage_proofs[k].proof) :
                              x + 1 \in DOMAIN slim.storage_nodes
                        /\ Resolved(sp.storage_proofs[k].proof, slim.storage_nodes)
                               = in.storage_proof[k].proof

\* C17 witness: create has built a parcel for two accounts whose account
\* proofs share a node and hold two distinct nodes, with a storage proof.
C17_Witness ==
    /\ slim.res = "Ok"
    /\ Len(slim.slim_eip1186_proofs) = 2
    /\ Len(slim.account_nodes) = 2
    /\ \E i \in DOMAIN slim.slim_eip1186_proofs :
          /\ Len(slim.slim_eip1186_proofs[i].account_proof) = 2
          /\ slim.slim_eip1186_proofs[i].account_proof[1] = 1
          /\ Len(slim.slim_eip1186_proofs[i].storage_proofs) = 1
          /\ Len(slim.slim_eip1186_proofs[i].storage_proofs[1].proof) >= 1

\* No byte string occurs twice in the list.
NoRepeat(list) == \A i, j \in DOMAIN list : list[i] = list[j] => i = j

\* C18 (de-duplication): in a parcel built by create no byte string occurs
\* twice in account_nodes and none occurs twice in storage_nodes, and every
\* node of every input proof occurs in the corresponding list.
C18_Deduplicated ==
    slim.res = "Ok" =>
        /\ NoRepeat(slim.account_nodes)
        /\ NoRepeat(slim.storage_nodes)
        /\ \A a \in DOMAIN block_proofs :
              /\ Range(block_proofs[a].account_proof) \subseteq Range(slim.account_nodes)
              /\ \A k \in DOMAIN block_proofs[a].storage_proof :
                    Range(block_proofs[a].storage_proof[k].proof)
                        \subseteq Range(slim.storage_nodes)

\* C18 witness: create has built a parcel from proofs in which a node occurs
\* twice in one account proof and again in the other account's proof, and
\* a node occurs twice in a storage proof.
C18_Witness ==
    /\ slim.res = "Ok"
    /\ DOMAIN block_proofs = Addresses
    /\ \E a \in Addresses :
          /\ Len(block_proofs[a].account_proof) = 2
          /\ block_proofs[a].account_proof[1] = block_proofs[a].account_proof[2]
          /\ \E b \in Addresses \ {a} :
                block_proofs[a].account_proof[1] \in Range(block_proofs[b].account_proof)
    /\ \E a \in Addresses : \E k \in DOMAIN block_proofs[a].storage_proof :
          /\ Len(block_proofs[a].storage_proof[k].proof) = 2
          /\ block_proofs[a].storage_proof[k].proof[1]
                 = block_proofs[a].storage_proof[k].proof[2]
    /\ Len(slim.account_nodes) >= 1 /\ Len(slim.storage_nodes) = 1

\* C16 (codec identity): from_ssz_bytes(to_ssz_bytes(parcel)) returns Ok with
\* a parcel equal to the original in every field.
C16_CodecIdentity ==
    decoded.res # "none" =>
        /\ decoded.res = "Ok"
        /\ decoded.parcel.compact_eip1186_proofs = parcel.compact_eip1186_proofs
        /\ decoded.parcel.contracts = parcel.contracts
        /\ decoded.parcel.account_nodes = parcel.account_nodes
        /\ decoded.parcel.storage_nodes = parcel.storage_nodes
        /\ decoded.parcel.blockhashes = parcel.blockhashes

\* C16 witness: a parcel with two proofs, one with two storage proofs and
\* indices above 255, an empty node, and two block hashes has been encoded
\* and decoded.
C16_Witness ==
    /\ decoded.res = "Ok"
    /\ Len(parcel.compact_eip1186_proofs) = 2
    /\ Len(parcel.compact_eip1186_proofs[1].storage_proofs) = 2
    /\ parcel.compact_eip1186_proofs[2].account_proof = <<258, 1>>
    /\ parcel.compact_eip1186_proofs[2].storage_proofs = <<>>
    /\ Len(parcel.contracts) = 1
    /\ parcel.account_nodes = <<<<>>, <<193>>>>
    /\ parcel.storage_nodes = <<>>
    /\ Len(parcel.blockhashes) = 2
    /\ Len(ssz_data.bytes) > 400

\* A transaction was successfully loaded and not yet successfully executed.
Pending == evm_calls.loads = evm_calls.executions + 1

\* C20 (no double-loading): in every call on a BlockEvm,
\* add_transaction_environment returns TxAlreadySet exactly when a
\* transaction was successfully loaded and not yet successfully executed, and
\* then leaves the loaded transaction environment as it is; an execute call
\* returns TxNotSet exactly when no transaction is loaded; so a load succeeds
\* only with no transaction pending and an execution only with one pending:
\* successful loads and executions alternate, starting with a load.
C20_NoDoubleLoading ==
    [][/\ evm_calls.loads \in {evm_calls.executions, evm_calls.executions + 1}
       /\ evm_calls'.op = "add_transaction_environment" =>
             /\ evm_calls'.res = "TxAlreadySet" <=> Pending
             /\ evm_calls'.res = "TxAlreadySet" => block_evm' = block_evm
             /\ evm_calls'.res = "Ok" => ~Pending /\ Pending'
       /\ evm_calls'.op \in {"execute_with_inspector_eip3155", "execute_without_inspector"} =>
             /\ evm_calls'.res = "TxNotSet" <=> ~Pending
             /\ evm_calls'.res = "Ok" => Pending /\ ~Pending'
      ]_evm_calls

\* C20 witness: after a load, an execution and a second load, a third load
\* has been refused with TxAlreadySet.
C20_Witness ==
    /\ evm_calls.op = "add_transaction_environment" /\ evm_calls.res = "TxAlreadySet"
    /\ evm_calls.loads = 2 /\ evm_calls.executions = 1
    /\ block_evm.tx_env_status = "Loaded" /\ block_evm.committed = 1

\* The transaction can be loaded and executed without error.
Executes(tx, op) ==
    /\ tx.env = "Ok" /\ tx.revm = "Ok"
    /\ op = "trace_transaction" => tx.index = "Some"

\* C19 (root check): trace_block and trace_transaction return Ok only if
\* every transaction was loaded and executed without error and the root
\* computed by state_root_post_block from the accumulated delta equals the
\* header's state_root; when every transaction was executed and the roots
\* differ they return PostBlockStateRoot carrying both roots.
C19_RootCheck ==
    trace.res # "none" =>
        LET txs == executor.block.transactions
            all == /\ \A i \in DOMAIN txs : Executes(txs[i], trace.op)
                   /\ trace.evm.committed = Len(txs)
                   /\ trace.evm.tx_env_status = "NotLoaded"
                   /\ executor.block_proof_cache = "Ok"
        IN  /\ trace.res = "Ok" =>
                all /\ StateRoot(trace.delta) = executor.block.state_root
            /\ all /\ StateRoot(trace.delta) # executor.block.state_root =>
                /\ trace.res = "PostBlockStateRoot"
                /\ trace.computed_root = hex_encode(StateRoot(trace.delta))
                /\ trace.header_root = hex_encode(executor.block.state_root)
            /\ trace.res = "PostBlockStateRoot" => all

\* C19 witness: trace_transaction has executed both transactions of a block,
\* one of them with the inspector, and returned PostBlockStateRoot.
C19_Witness ==
    /\ trace.res = "PostBlockStateRoot" /\ trace.op = "trace_transaction"
    /\ Len(executor.block.transactions) = 2
    /\ trace.evm.committed = 2 /\ trace.evm.traced = 1
    /\ trace.computed_root # trace.header_root

\* A claimed account or value goes with what its proof verifies as: an
\* inclusion with a non-empty claim, an exclusion with an empty one.
Paired(verifies, claim_is_empty) ==
    \/ verifies = "Inclusion" /\ ~claim_is_empty
    \/ verifies = "Exclusion" /\ claim_is_empty

\* C21 (empty value is absence): verify_proof returns Ok only if the account
\* proof verifies as an inclusion and the claimed account is not the default
\* one, or as an exclusion and it is the default one, and every storage
\* proof verifies as an inclusion of a non-zero value or as an exclusion
\* with the value zero; the storage proof it refuses is the first that is
\* not so, with InclusionProofForZeroValue for an inclusion of zero and
\* ExclusionProofForNonZeroValue for an exclusion of a non-zero value, and an
\* account refused gets InclusionProofForEmptyAccount or
\* ExclusionProofForNonEmptyAccount likewise.
C21_EmptyValueIsAbsence ==
    LET sp == response.storage_proof
        ok(i) == Paired(sp[i].verifies, sp[i].value = 0)
        account_ok == Paired(response.account_verifies, response.account = AccountDefault)
    IN  verified.res # "none" =>
        /\ verified.res = "Ok" <=> account_ok /\ \A i \in DOMAIN sp : ok(i)
        /\ verified.res = "AccountError" <=> ~account_ok
        /\ verified.res = "AccountError" /\ response.account_verifies = "Inclusion"
           => verified.source = "InclusionProofForEmptyAccount"
        /\ verified.res = "AccountError" /\ response.account_verifies = "Exclusion"
           => verified.source = "ExclusionProofForNonEmptyAccount"
        /\ verified.res = "StorageError" =>
              /\ ~ok(verified.storage_index)
              /\ \A j \in 1 .. verified.storage_index - 1 : ok(j)
              /\ sp[verified.storage_index].verifies = "Inclusion"
                 => verified.source = "InclusionProofForZeroValue"
              /\ sp[verified.storage_index].verifies = "Exclusion"
                 => verified.source = "ExclusionProofForNonZeroValue"

\* C21 witness: verify_proof has returned Ok for a response with an included
\* account, a storage proof that is an inclusion of a non-zero value and one
\* that is an exclusion with the value zero.
C21_Witness ==
    /\ verified.res = "Ok"
    /\ response.account_verifies = "Inclusion"
    /\ \E i, j \in DOMAIN response.storage_proof :
          /\ response.storage_proof[i].verifies = "Inclusion"
          /\ response.storage_proof[j].verifies = "Exclusion"

\* The detecting loop of oracle_from_simulated_state_update has ended
\* without an error.
DetectedAll == simulated.res \notin {"none", "NoPreStateAddress", "NoPostStateKey"}

\* Exactly one of the two values is zero.
OneIsZero(val_pre, val_post) == (val_pre = 0) # (val_post = 0)

\* C22 (created or destroyed): storage_created_or_destroyed(pre, post) is
\* true if and only if exactly one of pre and post is zero, for every
\* storage key of the post-state proofs that has a pre-state value; and the
\* updates oracle_from_simulated_state_update keeps are those of these keys.
C22_CreatedOrDestroyed ==
    \A a \in DOMAIN block_states.post \cap DOMAIN block_states.pre :
    \A i \in DOMAIN block_states.post[a] :
        LET e == block_states.post[a][i]
            f == FindKey(block_states.pre[a], e.key)
        IN  f.found =>
            /\ storage_created_or_destroyed(f.value, e.value) <=> OneIsZero(f.value, e.value)
            /\ DetectedAll =>
                  (InterestingUpdate(a, e.key, e.value) \in Range(simulated.updates)
                       <=> OneIsZero(f.value, e.value))

\* C22 witness: the function has returned Ok for a block with a key created
\* (zero to non-zero), a key destroyed (non-zero to zero), a key changed
\* between two non-zero values and a key that stays zero.
C22_Witness ==
    /\ simulated.res = "Ok"
    /\ \E u, v \in Range(simulated.updates) : u.value = 0 /\ v.value # 0
    /\ \E a \in DOMAIN block_states.post : \E i \in DOMAIN block_states.post[a] :
          /\ block_states.post[a][i].value = 2
          /\ FindKey(block_states.pre[a], block_states.post[a][i].key).value = 1
    /\ \E a \in DOMAIN block_states.post : \E i \in DOMAIN block_states.post[a] :
          /\ block_states.post[a][i].value = 0
          /\ FindKey(block_states.pre[a], block_states.post[a][i].key).value = 0

\* The keys of the list never decrease.
Ascending(updates) == \A i, j \in DOMAIN updates : i < j => updates[i].key <= updates[j].key

\* No two updates of the list have the same key.
DistinctKeys(updates) == \A i, j \in DOMAIN updates : updates[i].key = updates[j].key => i = j

\* The sorted updates the function makes when post.proofs is iterated in order.
UpdatesFor(order) ==
    sort_by_key(Detect(block_states.pre, PostEntries(block_states.post, order), 1, <<>>).updates)

\* The tasks are made of updates of the list, in the order of the list.
InOrderOf(tasks, updates) ==
    \E pos \in [DOMAIN tasks -> DOMAIN updates] :
        /\ \A i, j \in DOMAIN tasks : i < j => pos[i] < pos[j]
        /\ \A i \in DOMAIN tasks : tasks[i] = OracleTask(updates[pos[i]])

\* C24 (replay order, as the code has it): the interesting updates are
\* replayed on the pre-state multiproof in an order in which the storage
\* keys never decrease, whatever the order the post-state map is iterated
\* in, up to the first update update_storage_proof fails for; the tasks are
\* created in that order; the order is the same for every iteration order
\* when no two interesting updates have the same storage key, and always
\* holds the same updates.
C24_ReplayOrder ==
    DetectedAll =>
        /\ Ascending(simulated.updates)
        /\ simulated.replayed = SubSeq(simulated.updates, 1, Len(simulated.replayed))
        /\ InOrderOf(simulated.tasks, simulated.replayed)
        /\ \A order \in Orders(DOMAIN block_states.post) :
              /\ Range(UpdatesFor(order)) = Range(simulated.updates)
              /\ DistinctKeys(simulated.updates) => UpdatesFor(order) = simulated.updates

\* C24 as stated: the interesting updates are replayed in ascending
\* storage-key order, the same order for every iteration order of the
\* post-state map.
C24_AsStated ==
    DetectedAll =>
        /\ Ascending(simulated.updates)
        /\ \A order \in Orders(DOMAIN block_states.post) :
              UpdatesFor(order) = simulated.updates

\* C24 witness: the function has returned Ok after replaying three updates
\* or more that the detecting loop had pushed in another order, two of them
\* with the same key, and two tasks or more were created.
C24_Witness ==
    /\ simulated.res = "Ok"
    /\ Len(simulated.replayed) >= 3
    /\ Len(simulated.tasks) >= 2
    /\ ~DistinctKeys(simulated.updates)
    /\ \A order \in Orders(DOMAIN block_states.post) :
          Detect(block_states.pre, PostEntries(block_states.post, order), 1, <<>>).updates
              # simulated.updates

RECURSIVE EndOfWalk(_, _, _)
\* What traverse's loop finds at the node it ends at: the terminus with its
\* divergence index, or the error.
EndOfWalk(st, path, t) ==
    IF t.act = "descend" THEN EndOfWalk(st, path, TurnAt(st, path, t.next_node_hash, t.next_vi))
    ELSE t

DivergenceIndex(st, p) == EndOfWalk(st, p, TurnAt(st, p, st.root, 0)).index

\* The non-empty items of a node.
NonEmptyItems(node) == {i \in 1 .. Len(node) : node[i] # <<>>}

\* The nodes of a split at the terminus of the walk along p in store st, for
\* the new value v: the new leaf, the old node shortened, the branch over
\* both and the node the parent is to reference.
SplitNodes(st, p, v) ==
    LET tr    == VisitedTrail(st, p)
        old   == DecodeList(st.data[tr[Len(tr)].node_hash])
        nibs  == prefixed_bytes_to_nibbles(old[1])
        d     == DivergenceIndex(st, p)
        n     == d - tr[Len(tr)].visiting_index
        leaf  == ToRlpList(<<nibbles_to_prefixed_bytes(SubSeq(p, d + 2, PathLen), "Leaf"), v>>)
        short == ToRlpList(<<nibbles_to_prefixed_bytes(SubSeq(nibs, n + 2, Len(nibs)),
                                                        tr[Len(tr)].kind), old[2]>>)
        branch == ToRlpList([i \in 1 .. BranchItems |->
                      IF i - 1 = p[d + 1] THEN Keccak(leaf)
                      ELSE IF i - 1 = nibs[n + 1] THEN Keccak(short)
                      ELSE <<>>])
    IN  [leaf |-> leaf, short |-> short, branch |-> branch, common |-> SubSeq(nibs, 1, n),
         top |-> IF n = 0 THEN branch
                 ELSE ToRlpList(<<nibbles_to_prefixed_bytes(SubSeq(nibs, 1, n), "Extension"),
                                  Keccak(branch)>>)]

\* C23 (split on insertion): after a successful traverse(p, Modify(v)) with a
\* non-empty v at an extension- or leaf-exclusion terminus with divergence
\* index d, the node the parent (or the root) references in place of the old
\* terminus is a branch with exactly two non-empty slots, the slot of p's
\* nibble at d holding the hash of a new leaf with p's nibbles after d and
\* value v, the slot of the old node's nibble at d holding the hash of the
\* old node shortened to its nibbles after d; the branch is referenced
\* directly when the common prefix is empty and through a new extension
\* whose path is the common prefix otherwise.  All these nodes are stored.
C23_SplitOnInsertion ==
    \A p \in Keys : \A v \in NonEmptyValues :
        LET m  == traverse(Store, p, Modify(v))
            sn == SplitNodes(Store, p, v)
            k  == Len(VisitedTrail(Store, p))
        IN  Running /\ m.res = "Ok" /\ m.term \in {"ExtensionExclusion", "LeafExclusion"}
            => /\ Cardinality(NonEmptyItems(DecodeList(sn.branch))) = 2
               /\ {Keccak(sn.leaf), Keccak(sn.short), Keccak(sn.branch), Keccak(sn.top)}
                      \subseteq DOMAIN m.data
               /\ \A n \in {sn.leaf, sn.short, sn.branch, sn.top} : m.data[Keccak(n)] = n
               /\ VisitedTrail(After(m), p)[k].node_hash = Keccak(sn.top)
               /\ (sn.common = <<>>) <=> NodeKindDeduce(DecodeList(sn.top)) = "Branch"
               /\ k = 1 => m.root = Keccak(sn.top)

\* C23 witness: a Modify with a non-empty value has returned Ok at a
\* diverging extension or leaf, and the store holds an extension over a
\* branch with exactly two children, one of them a leaf with that kind of
\* value.
C23_Witness ==
    /\ last.op = "Modify" /\ last.res = "Ok" /\ ~last.empty
    /\ last.term \in {"ExtensionExclusion", "LeafExclusion"}
    /\ \E h \in DOMAIN data :
          LET ext == DecodeList(data[h])
          IN  /\ NodeKindDeduce(ext) = "Extension"
              /\ ext[2] \in DOMAIN data
              /\ NodeKindDeduce(DecodeList(data[ext[2]])) = "Branch"
              /\ Cardinality(NonEmptyItems(DecodeList(data[ext[2]]))) = 2
              /\ \E i \in NonEmptyItems(DecodeList(data[ext[2]])) :
                    /\ DecodeList(data[ext[2]])[i] \in DOMAIN data
                    /\ DecodeList(data[DecodeList(data[ext[2]])[i]])[2] \in NonEmptyValues

\* C25 (modifying one key does not disturb another): for distinct paths p and
\* q the store resolves, after a successful traverse(p, Modify(v)) both
\* traverse(q, VerifyInclusion(w)) and traverse(q, VerifyExclusion) return
\* what they returned before, also when the walks along p and q meet
\* byte-identical nodes.
C25_ModifyFrame ==
    \A p \in Keys : \A q \in Keys \ {p} : \A v \in Values :
        LET m == traverse(Store, p, Modify(v))
        IN  Running /\ Resolves(Store, p) /\ Resolves(Store, q) /\ m.res = "Ok"
            => /\ traverse(After(m), q, VerifyExclusion).res
                      = traverse(Store, q, VerifyExclusion).res
               /\ \A w \in AllValues(q) :
                     traverse(After(m), q, VerifyInclusion(w)).res
                         = traverse(Store, q, VerifyInclusion(w)).res

\* The intents a path p is traversed with.
Intents(p) ==
    {Modify(v) : v \in Values} \cup {VerifyInclusion(v) : v \in AllValues(p)}
        \cup {RemoveIntent, VerifyExclusion}

\* The call returned an error (it neither succeeded nor stopped the process).
Failed(r) == r.res \notin {"Ok", "panic"}

\* C26 (failed traversals leave the store unchanged): whenever traverse
\* returns an error, for any intent, root and data are what they were
\* before the call.
C26_FailureFrame ==
    \A p \in Keys : \A intent \in Intents(p) :
        LET r == traverse(Store, p, intent)
        IN  Running /\ Failed(r) => r.data = data /\ r.root = root

RECURSIVE WellFormed(_, _, _)
\* The nodes of the store d below the node with hash h, which stands depth
\* nibbles below the root, are structurally valid; a node the store does not
\* hold is not looked at.
WellFormed(d, h, depth) ==
    IF h \notin DOMAIN d THEN TRUE
    ELSE LET node == DecodeList(d[h])
             kind == NodeKindDeduce(node)
         IN  IF kind = "Branch"
             THEN /\ Cardinality(NonEmptyItems(node) \ {BranchItems}) >= 2
                  /\ \A i \in NonEmptyItems(node) \ {BranchItems} : WellFormed(d, node[i], depth + 1)
             ELSE IF kind = "Extension"
             THEN /\ Len(prefixed_bytes_to_nibbles(node[1])) >= 1
                  /\ WellFormed(d, node[2], depth + Len(prefixed_bytes_to_nibbles(node[1])))
             ELSE /\ kind = "Leaf"
                  /\ depth + Len(prefixed_bytes_to_nibbles(node[1])) = PathLen

\* C27 (well-formed trie after insertion): after a successful
\* traverse(p, Modify(v)) with a non-empty value on a store hydrated from
\* valid proofs, every node held in the store on a path from the root is
\* structurally valid: a branch has all its items and at least two
\* children, an extension has a path of at least one nibble, a leaf's path
\* completes the key.
C27_WellFormedAfterInsertion ==
    last.op = "Modify" /\ last.res = "Ok" /\ ~last.empty => WellFormed(data, root, 0)

\* C28 (view terminates): MultiProof::view returns, the list of visited
\* nodes or an error, after visiting at most one node per step of the path
\* (and the leaf that ends it), also when the path diverges inside an
\* extension.
C28_ViewTerminates ==
    viewer.res # "none"
        => viewer.res # "running" /\ Len(viewer.visited_nodes) <= PathLen + 1

\* C29 (verification is read-only): traverse(p, VerifyInclusion(v)) and
\* traverse(p, VerifyExclusion) leave the root and the node map as they
\* were before the call, whether they return Ok or an error.
C29_VerifyReadOnly ==
    \A p \in Keys : \A intent \in {VerifyInclusion(v) : v \in AllValues(p)} \cup {VerifyExclusion} :
        LET r == traverse(Store, p, intent)
        IN  r.data = data /\ r.root = root

\* C29 witness: a verification has returned an error at a terminus on a
\* store that holds nodes, where another verification returns Ok and a
\* third ends in an error on its way.
C29_Witness ==
    /\ last.op = "VerifyExclusion" /\ last.res = "ExclusionRequired"
    /\ DOMAIN data # {}
    /\ \E p \in Keys : \E v \in AllValues(p) : traverse(Store, p, VerifyInclusion(v)).res = "Ok"
    /\ \E p \in Keys : traverse(Store, p, VerifyExclusion).res = "NoNodeForHash"

\* The last transaction of the block that writes storage slot k.
LastWriter(txs, k) ==
    CHOOSE i \in DOMAIN txs : txs[i].slot = k /\ \A j \in DOMAIN txs : txs[j].slot = k => j <= i

\* C30 (no lost writes in the block delta): once trace_block or
\* trace_transaction has executed every transaction of the block, the delta
\* handed to state_root_post_block holds, for every storage slot a
\* transaction of the block wrote, the value of the last write to it.
C30_NoLostWrites ==
    trace.res \in {"Ok", "PostBlockStateRoot", "StateError"}
        => \A i \in DOMAIN executor.block.transactions :
              /\ TheAccount \in DOMAIN trace.delta
              /\ executor.block.transactions[i].slot \in DOMAIN trace.delta[TheAccount].storage
              /\ trace.delta[TheAccount].storage[executor.block.transactions[i].slot]
                     = LastWriter(executor.block.transactions,
                                  executor.block.transactions[i].slot)
====
